---------------------------- MODULE Spec2Model ----------------------------
(***************************************************************************)
(* CupidDB: the request plane of the cache (src/handler/handler.rs), the   *)
(* expirer (src/handler/cache_manager.rs) and the connection loop          *)
(* (src/server.rs), as a state machine.                                    *)
(*                                                                         *)
(* The two DashMaps are functions whose DOMAIN is the set of present keys. *)
(* Every DashMap call (get, insert, remove, contains_key, entry, clear) is *)
(* one atomic step; a handler that makes several calls is several steps,   *)
(* held together by the connection's pc, so that connection tasks and the  *)
(* expirer interleave between the calls as they do on the multi-threaded   *)
(* runtime.  A Rust panic ends the task: pc = "panicked", no reply.        *)
(***************************************************************************)
EXTENDS Integers, Sequences, FiniteSets, TLC

VARIABLES
    shared_db,        \* SharedDB: key -> stored bytes (handler.rs:16)
    timeout_db,       \* TimeoutDB: key -> deadline in ms (handler.rs:15)
    now,              \* SystemTime::now(), in clock ticks (TicksPerMs per ms)
    overflow_checks,  \* whether the build panics on integer overflow
    sd,               \* an SD payload and what handle_set_data splits it into
    pc,               \* per connection task: its position
    msg,              \* per connection task: the frame read_frame returned
    resp,             \* per connection task: (response_type, response_payload)
    loc,              \* per connection task: the handler's locals
    epc,              \* the expirer's position
    remove_keys,      \* the keys of the expirer's remove_keys vector not yet removed
    nreq,             \* frames read so far (bounds the run)
    origin,           \* history: per key, who wrote the stored value and what
    server,           \* Server::run: shutdown_token, connection_counter, position
    wire              \* one TCP stream: the bytes in flight, and history

vars == <<shared_db, timeout_db, now, overflow_checks, sd, pc, msg, resp, loc,
          epc, remove_keys, nreq, origin, server, wire>>

---------------------------------------------------------------------------
(* Bounds of the model. *)

MaxTime == 3
MaxReqs == 3
TicksPerMs == 2   \* resolution of the modelled clock: SystemTime is finer than 1 ms
graceful_timeout == 2   \* config.graceful_timeout, in seconds
MaxFrames == 2   \* frames in flight on the modelled stream
LongLen == 300   \* a payload length that needs two length bytes

(* Program constants. *)

BATCH_SIZE == 100
TagA == 65
TagB == 66
TagI == 73
TagF == 70
IpcContinuation == 255
U16_MAX == 65535

Conns == {"c1", "c2"}

---------------------------------------------------------------------------
(* DashMap primitives. *)

EmptyMap == [x \in {} |-> 0]

contains_key(m, k) == k \in DOMAIN m

insert(m, k, v) == [x \in DOMAIN m \cup {k} |-> IF x = k THEN v ELSE m[x]]

remove(m, k) == [x \in DOMAIN m \ {k} |-> m[x]]

---------------------------------------------------------------------------
(* Bytes.  A byte string is a sequence of numbers 0..255; an i64 is its 8  *)
(* big-endian bytes (i64::from_be_bytes / to_be_bytes), added byte by byte *)
(* with carry, which is addition modulo 2^64.                              *)

u16_be(n) == <<n \div 256, n % 256>>

RECURSIVE Carry(_, _, _)
Carry(a, b, i) ==
    IF i = 8 THEN 0 ELSE (a[i + 1] + b[i + 1] + Carry(a, b, i + 1)) \div 256

wrapping_add(a, b) == [i \in 1..8 |-> (a[i] + b[i] + Carry(a, b, i)) % 256]

is_negative(a) == a[1] >= 128

\* i64 addition overflows iff the operands share a sign the sum does not have.
add_overflows(a, b) ==
    /\ is_negative(a) = is_negative(b)
    /\ is_negative(wrapping_add(a, b)) # is_negative(a)

I64(n) == [i \in 1..8 |-> IF i = 8 THEN n ELSE 0]
I64_MINUS_1 == [i \in 1..8 |-> 255]
I64_MAX == [i \in 1..8 |-> IF i = 1 THEN 127 ELSE 255]
I64_MIN == [i \in 1..8 |-> IF i = 1 THEN 128 ELSE 0]

---------------------------------------------------------------------------
(* f64 of a small whole number, as its 8 big-endian IEEE-754 bytes: sign 0, *)
(* biased exponent 1023 + e in 11 bits, then the fraction (n - 2^e) / 2^e.  *)
(* f64 addition of two such numbers is exact.                               *)

Pow2(e) == CASE e = 0 -> 1 [] e = 1 -> 2 [] e = 2 -> 4 [] e = 3 -> 8 [] e = 4 -> 16

Log2(n) == CHOOSE e \in 0..4 : Pow2(e) <= n /\ n < 2 * Pow2(e)

f64_to_be_bytes(n) ==
    IF n = 0 THEN [i \in 1..8 |-> 0]
    ELSE LET e == Log2(n)
             biased == 1023 + e
             frac16 == ((n - Pow2(e)) * 16) \div Pow2(e)
         IN [i \in 1..8 |-> CASE i = 1 -> biased \div 16
                              [] i = 2 -> (biased % 16) * 16 + frac16
                              [] OTHER -> 0]

f64_from_be_bytes(b) == CHOOSE n \in 0..31 : f64_to_be_bytes(n) = b

f64_add(a, b) == f64_to_be_bytes(f64_from_be_bytes(a) + f64_from_be_bytes(b))

---------------------------------------------------------------------------
(* Frames.  A request is the (message_type, payload) read_frame returns,    *)
(* with the payload already cut into the fields the handler slices out of   *)
(* it: SD = cache_time_ms(8) is_add(1) key_len(2) key value; II/IF =        *)
(* delta(8) key; TH = cache_time_ms(8) key; GA/GD/DL = key; DM = keys      *)
(* separated by NUL.                                                        *)

\* short: the payload is shorter than the fixed fields the handler indexes.
NullMsg ==
    [op |-> "none", key |-> "", cache_time_ms |-> 0, is_add |-> FALSE,
     value |-> <<>>, delta |-> <<>>, keys |-> <<>>, short |-> FALSE,
     truncated |-> FALSE]

SD(t, a, k, v) == [NullMsg EXCEPT !.op = "SD", !.cache_time_ms = t,
                                  !.is_add = a, !.key = k, !.value = v]
II(d, k) == [NullMsg EXCEPT !.op = "II", !.delta = d, !.key = k]
IF_(d, k) == [NullMsg EXCEPT !.op = "IF", !.delta = d, !.key = k]
GA(p) == [NullMsg EXCEPT !.op = "GA", !.key = p]
GD(k) == [NullMsg EXCEPT !.op = "GD", !.key = k]
DL(k) == [NullMsg EXCEPT !.op = "DL", !.key = k]
TH(t, k) == [NullMsg EXCEPT !.op = "TH", !.cache_time_ms = t, !.key = k]
DM(ks) == [NullMsg EXCEPT !.op = "DM", !.keys = ks]
FU == [NullMsg EXCEPT !.op = "FU"]
TL(k) == [NullMsg EXCEPT !.op = "TL", !.key = k]
\* An SD frame whose payload has fewer than 11 bytes.
SD_short == [NullMsg EXCEPT !.op = "SD", !.short = TRUE]
\* CC, a frame whose version byte is not 'B' (read_frame reports it as WP),
\* and a frame with a message type handle_frame does not know.
CC == [NullMsg EXCEPT !.op = "CC"]
WP == [NullMsg EXCEPT !.op = "WP"]
XX == [NullMsg EXCEPT !.op = "XX"]
\* LS: the payload is the glob pattern, a sequence of characters.
LS(p) == [NullMsg EXCEPT !.op = "LS", !.value = p]

NoResp == <<"", <<>>>>
\* A handler's locals; named_present is history: how many of the keys a DM
\* names were in the value map when the DM started.
NoLoc == [buffer |-> <<>>, del_keys |-> <<>>, count |-> 0, named_present |-> 0]
\* History of a stored value: who wrote it ("FU": a flush removed it), the bytes written, the deltas
\* added since, and the opcode and cache time of the last deadline step on
\* the key ("none", -1: none since the value was written).
NoOrigin ==
    [by |-> "none", bytes |-> <<>>, deltas |-> <<>>, ttl_by |-> "none", ttl |-> -1]

\* Duration::from_millis and Duration::as_millis (which truncates).
from_millis(ms) == ms * TicksPerMs
as_millis(d) == d \div TicksPerMs

u64_be(n) == [i \in 1..8 |-> IF i = 8 THEN n % 256 ELSE 0]

ER(code) == <<"ER", u16_be(code)>>

OriginOf(k) == IF k \in DOMAIN origin THEN origin[k] ELSE NoOrigin

---------------------------------------------------------------------------
(* The connection task's loop (server.rs handle_stream).                    *)

\* handle_frame returned: the reply is written next.
Return(c, r) ==
    /\ resp' = [resp EXCEPT ![c] = r]
    /\ pc' = [pc EXCEPT ![c] = "write"]

\* A panic inside handle_frame unwinds the spawned task: nothing is written.
Panic(c) ==
    /\ pc' = [pc EXCEPT ![c] = "panicked"]
    /\ UNCHANGED resp

Goto(c, l) ==
    /\ pc' = [pc EXCEPT ![c] = l]
    /\ UNCHANGED resp

\* connection.read_frame() completes with a request of the set R.
read_frame(c, R) ==
    /\ pc[c] = "read"
    /\ nreq < MaxReqs
    /\ \E m \in R : msg' = [msg EXCEPT ![c] = m]
    /\ pc' = [pc EXCEPT ![c] = "handle"]
    /\ nreq' = nreq + 1
    /\ UNCHANGED <<shared_db, timeout_db, now, overflow_checks, sd, wire, server, resp, loc,
                   epc, remove_keys, origin>>

\* connection.write_frame(response_type, response_payload); the loop breaks
\* after a CC reply or a WP request and goes on otherwise.
write_frame(c) ==
    /\ pc[c] = "write"
    /\ pc' = [pc EXCEPT ![c] = IF resp[c][1] = "CC" \/ msg[c].op = "WP"
                                THEN "end" ELSE "read"]
    /\ msg' = [msg EXCEPT ![c] = NullMsg]
    /\ resp' = [resp EXCEPT ![c] = NoResp]
    /\ loc' = [loc EXCEPT ![c] = NoLoc]
    /\ UNCHANGED <<shared_db, timeout_db, now, overflow_checks, sd, wire, server, epc,
                   remove_keys, nreq, origin>>

\* The wall clock advances.
Tick ==
    /\ now < MaxTime
    /\ now' = now + 1
    /\ UNCHANGED <<shared_db, timeout_db, overflow_checks, sd, wire, server, pc, msg, resp, loc,
                   epc, remove_keys, nreq, origin>>

---------------------------------------------------------------------------
(* handle_set_data (handler.rs:60-83).                                      *)

\* shared_db.insert(key, payload[key_index_until..]): the bytes verbatim.
SetDataInsert(c) ==
    /\ shared_db' = insert(shared_db, msg[c].key, msg[c].value)
    /\ origin' = insert(origin, msg[c].key,
                        [NoOrigin EXCEPT !.by = "SD", !.bytes = msg[c].value])

\* A variant that never tests is_add: the value is always overwritten.
handle_set_data_check_overwrites(c) ==
    /\ pc[c] = "handle" /\ msg[c].op = "SD"
    /\ SetDataInsert(c)
    /\ Goto(c, "SD_deadline")
    /\ UNCHANGED <<timeout_db, now, overflow_checks, sd, wire, server, msg, loc, epc,
                   remove_keys, nreq>>

\* payload[0..8], payload[8], payload[9], payload[10] panic on a payload
\* that is too short.  The is_add test: contains_key short-circuits away
\* when is_add is 0, and the insert follows at once.
handle_set_data_check(c) ==
    /\ pc[c] = "handle" /\ msg[c].op = "SD"
    /\ IF msg[c].short
       THEN Panic(c) /\ UNCHANGED <<shared_db, origin>>
       ELSE IF msg[c].is_add
       THEN /\ IF contains_key(shared_db, msg[c].key)
               THEN Return(c, <<"NA", <<>>>>)
               ELSE Goto(c, "SD_insert")
            /\ UNCHANGED <<shared_db, origin>>
       ELSE /\ SetDataInsert(c)
            /\ Goto(c, "SD_deadline")
    /\ UNCHANGED <<timeout_db, now, overflow_checks, sd, wire, server, msg, loc, epc,
                   remove_keys, nreq>>

handle_set_data_insert(c) ==
    /\ pc[c] = "SD_insert"
    /\ SetDataInsert(c)
    /\ Goto(c, "SD_deadline")
    /\ UNCHANGED <<timeout_db, now, overflow_checks, sd, wire, server, msg, loc, epc,
                   remove_keys, nreq>>

\* timeout_db.insert(key, now + duration) or timeout_db.remove(&key).
SetDeadline(c) ==
    /\ timeout_db' = IF msg[c].cache_time_ms > 0
                     THEN insert(timeout_db, msg[c].key,
                                 now + from_millis(msg[c].cache_time_ms))
                     ELSE remove(timeout_db, msg[c].key)
    /\ origin' = IF msg[c].key \in DOMAIN origin
                 THEN [origin EXCEPT ![msg[c].key].ttl = msg[c].cache_time_ms,
                                     ![msg[c].key].ttl_by = msg[c].op]
                 ELSE origin

handle_set_data_deadline(c) ==
    /\ pc[c] = "SD_deadline"
    /\ SetDeadline(c)
    /\ Return(c, <<"OK", <<>>>>)
    /\ UNCHANGED <<shared_db, now, overflow_checks, sd, wire, server, msg, loc, epc,
                   remove_keys, nreq>>

---------------------------------------------------------------------------
(* handle_get_data (handler.rs:217-238): one get; bytes_data[0] panics on   *)
(* an empty value.                                                          *)

GetDataReply(v) ==
    CASE v[1] = TagA -> <<"AR", Tail(v)>>
      [] v[1] = TagB -> <<"BY", Tail(v)>>
      [] v[1] = TagI -> <<"IN", Tail(v)>>
      [] v[1] = TagF -> <<"FL", Tail(v)>>
      [] OTHER -> ER(5)

handle_get_data(c) ==
    /\ pc[c] = "handle" /\ msg[c].op = "GD"
    /\ IF contains_key(shared_db, msg[c].key)
       THEN IF Len(shared_db[msg[c].key]) = 0
            THEN Panic(c)
            ELSE Return(c, GetDataReply(shared_db[msg[c].key]))
       ELSE Return(c, ER(2))
    /\ UNCHANGED <<shared_db, timeout_db, now, overflow_checks, sd, wire, server, msg, loc, epc,
                   remove_keys, nreq, origin>>

---------------------------------------------------------------------------
(* handle_increment_integer (handler.rs:85-113) and handle_increment_float  *)
(* (handler.rs:115-143): shared_db.entry(key) holds the shard's lock for    *)
(* the whole match, so each is one step.                                    *)

\* History: the deltas applied to a counter since an increment created it.
CounterOrigin(k, by, d) ==
    IF contains_key(shared_db, k)
    THEN IF OriginOf(k).by = by
         THEN [OriginOf(k) EXCEPT !.deltas = Append(@, d)]
         ELSE [NoOrigin EXCEPT !.by = "mixed"]
    ELSE [NoOrigin EXCEPT !.by = by, !.deltas = <<d>>]

\* int_data += increment_amount: wraps, or panics in a build with overflow
\* checks.
increment_panics(v, d) == overflow_checks /\ add_overflows(Tail(v), d)

\* handle_increment_integer with the entry guard released between the read
\* and the write: the sum computed from the value read is stored by a later
\* step.
handle_increment_integer_unlocked(c) ==
    /\ msg[c].op = "II"
    /\ LET k == msg[c].key
           d == msg[c].delta
       IN \/ /\ pc[c] = "handle"
             /\ resp' = [resp EXCEPT ![c] =
                           <<"IN", IF contains_key(shared_db, k)
                                   THEN wrapping_add(Tail(shared_db[k]), d)
                                   ELSE d>>]
             /\ pc' = [pc EXCEPT ![c] = "II_write"]
             /\ UNCHANGED <<shared_db, origin>>
          \/ /\ pc[c] = "II_write"
             /\ shared_db' = insert(shared_db, k, <<TagI>> \o resp[c][2])
             /\ origin' = insert(origin, k, CounterOrigin(k, "II", d))
             /\ pc' = [pc EXCEPT ![c] = "write"]
             /\ UNCHANGED resp
    /\ UNCHANGED <<timeout_db, now, overflow_checks, sd, wire, server, msg, loc, epc,
                   remove_keys, nreq>>

handle_increment_integer(c) ==
    /\ pc[c] = "handle" /\ msg[c].op = "II"
    /\ LET k == msg[c].key
           d == msg[c].delta
       IN IF contains_key(shared_db, k)
          THEN LET int_bytes == shared_db[k] IN
               IF Len(int_bytes) = 0
               THEN Panic(c) /\ UNCHANGED <<shared_db, origin>>
               ELSE IF int_bytes[1] # TagI \/ Len(int_bytes) # 9
               THEN Return(c, ER(5)) /\ UNCHANGED <<shared_db, origin>>
               ELSE IF increment_panics(int_bytes, d)
               THEN Panic(c) /\ UNCHANGED <<shared_db, origin>>
               ELSE LET int_data == wrapping_add(Tail(int_bytes), d) IN
                    /\ shared_db' = insert(shared_db, k, <<TagI>> \o int_data)
                    /\ origin' = insert(origin, k, CounterOrigin(k, "II", d))
                    /\ Return(c, <<"IN", int_data>>)
          ELSE /\ shared_db' = insert(shared_db, k, <<TagI>> \o d)
               /\ origin' = insert(origin, k, CounterOrigin(k, "II", d))
               /\ Return(c, <<"IN", d>>)
    /\ UNCHANGED <<timeout_db, now, overflow_checks, sd, wire, server, msg, loc, epc,
                   remove_keys, nreq>>

handle_increment_float(c) ==
    /\ pc[c] = "handle" /\ msg[c].op = "IF"
    /\ LET k == msg[c].key
           d == msg[c].delta
       IN IF contains_key(shared_db, k)
          THEN LET float_bytes == shared_db[k] IN
               IF Len(float_bytes) = 0
               THEN Panic(c) /\ UNCHANGED <<shared_db, origin>>
               ELSE IF float_bytes[1] # TagF \/ Len(float_bytes) # 9
               THEN Return(c, ER(5)) /\ UNCHANGED <<shared_db, origin>>
               ELSE LET float_data == f64_add(Tail(float_bytes), d) IN
                    /\ shared_db' = insert(shared_db, k, <<TagF>> \o float_data)
                    /\ origin' = insert(origin, k, CounterOrigin(k, "IF", d))
                    /\ Return(c, <<"FL", float_data>>)
          ELSE /\ shared_db' = insert(shared_db, k, <<TagF>> \o d)
               /\ origin' = insert(origin, k, CounterOrigin(k, "IF", d))
               /\ Return(c, <<"FL", d>>)
    /\ UNCHANGED <<timeout_db, now, overflow_checks, sd, wire, server, msg, loc, epc,
                   remove_keys, nreq>>

---------------------------------------------------------------------------
(* handle_delete (handler.rs:240-250): the deadline, then the value.        *)

handle_delete_deadline(c) ==
    /\ pc[c] = "handle" /\ msg[c].op = "DL"
    /\ timeout_db' = remove(timeout_db, msg[c].key)
    /\ Goto(c, "DL_value")
    /\ UNCHANGED <<shared_db, now, overflow_checks, sd, wire, server, msg, loc, epc,
                   remove_keys, nreq, origin>>

handle_delete_value(c) ==
    /\ pc[c] = "DL_value"
    /\ shared_db' = remove(shared_db, msg[c].key)
    /\ origin' = remove(origin, msg[c].key)
    /\ IF contains_key(shared_db, msg[c].key)
       THEN Return(c, <<"OK", <<>>>>)
       ELSE Return(c, ER(2))
    /\ UNCHANGED <<timeout_db, now, overflow_checks, sd, wire, server, msg, loc, epc,
                   remove_keys, nreq>>

---------------------------------------------------------------------------
(* handle_touch (handler.rs:252-274): contains_key, then the deadline.      *)

handle_touch_check(c) ==
    /\ pc[c] = "handle" /\ msg[c].op = "TH"
    /\ IF contains_key(shared_db, msg[c].key)
       THEN Goto(c, "TH_deadline")
       ELSE Return(c, ER(2))
    /\ UNCHANGED <<shared_db, timeout_db, now, overflow_checks, sd, wire, server, msg, loc, epc,
                   remove_keys, nreq, origin>>

handle_touch_deadline(c) ==
    /\ pc[c] = "TH_deadline"
    /\ SetDeadline(c)
    /\ Return(c, <<"OK", <<>>>>)
    /\ UNCHANGED <<shared_db, now, overflow_checks, sd, wire, server, msg, loc, epc,
                   remove_keys, nreq>>

---------------------------------------------------------------------------
(* handle_ttl (handler.rs:276-300): timeout_db.get, and on a miss           *)
(* shared_db.contains_key.                                                  *)

\* live_until.duration_since(now) is Ok when live_until >= now.
handle_ttl_deadline(c) ==
    /\ pc[c] = "handle" /\ msg[c].op = "TL"
    /\ IF contains_key(timeout_db, msg[c].key)
       THEN LET live_until == timeout_db[msg[c].key] IN
            IF live_until >= now
            THEN Return(c, <<"TL", u64_be(as_millis(live_until - now))>>)
            ELSE Return(c, ER(0))
       ELSE Goto(c, "TL_value")
    /\ UNCHANGED <<shared_db, timeout_db, now, overflow_checks, sd, wire, server, msg, loc, epc,
                   remove_keys, nreq, origin>>

handle_ttl_value(c) ==
    /\ pc[c] = "TL_value"
    /\ IF contains_key(shared_db, msg[c].key)
       THEN Return(c, <<"TL", u64_be(0)>>)
       ELSE Return(c, ER(2))
    /\ UNCHANGED <<shared_db, timeout_db, now, overflow_checks, sd, wire, server, msg, loc, epc,
                   remove_keys, nreq, origin>>

---------------------------------------------------------------------------
(* handle_delete_many (handler.rs:336-348): for each key of the split       *)
(* payload, the deadline, then the value.                                   *)

handle_delete_many_start(c) ==
    /\ pc[c] = "handle" /\ msg[c].op = "DM"
    /\ loc' = [loc EXCEPT ![c] =
                  [NoLoc EXCEPT !.del_keys = msg[c].keys,
                                !.named_present =
                                    Cardinality({i \in 1..Len(msg[c].keys) :
                                                    msg[c].keys[i] \in DOMAIN shared_db}
                                                \cap {i \in 1..Len(msg[c].keys) :
                                                    \A j \in 1..(i - 1) :
                                                        msg[c].keys[j] # msg[c].keys[i]})]]
    /\ Goto(c, "DM_deadline")
    /\ UNCHANGED <<shared_db, timeout_db, now, overflow_checks, sd, wire, server, msg, epc,
                   remove_keys, nreq, origin>>

handle_delete_many_deadline(c) ==
    /\ pc[c] = "DM_deadline"
    /\ IF loc[c].del_keys = <<>>
       THEN /\ Return(c, <<"DM", u16_be(loc[c].count)>>)
            /\ UNCHANGED timeout_db
       ELSE /\ timeout_db' = remove(timeout_db, Head(loc[c].del_keys))
            /\ Goto(c, "DM_value")
    /\ UNCHANGED <<shared_db, now, overflow_checks, sd, wire, server, msg, loc, epc,
                   remove_keys, nreq, origin>>

\* count += 1 on a u16: past U16_MAX it wraps to 0, or panics in a build
\* with overflow checks (after the remove).
handle_delete_many_value(c) ==
    /\ pc[c] = "DM_value"
    /\ LET key == Head(loc[c].del_keys) IN
       /\ shared_db' = remove(shared_db, key)
       /\ origin' = remove(origin, key)
       /\ loc' = [loc EXCEPT ![c].del_keys = Tail(@),
                             ![c].count = IF contains_key(shared_db, key)
                                          THEN (@ + 1) % (U16_MAX + 1) ELSE @]
       /\ IF contains_key(shared_db, key) /\ loc[c].count = U16_MAX
             /\ overflow_checks
          THEN Panic(c)
          ELSE Goto(c, "DM_deadline")
    /\ UNCHANGED <<timeout_db, now, overflow_checks, sd, wire, server, msg, epc, remove_keys,
                   nreq>>

---------------------------------------------------------------------------
(* handle_flush (handler.rs:350-354): timeout_db.clear(), shared_db.clear(). *)

\* A flush that forgets the deadline map.
handle_flush_timeout_keeps(c) ==
    /\ pc[c] = "handle" /\ msg[c].op = "FU"
    /\ Goto(c, "FU_shared")
    /\ UNCHANGED <<shared_db, timeout_db, now, overflow_checks, sd, wire, server, msg, loc, epc,
                   remove_keys, nreq, origin>>

handle_flush_timeout(c) ==
    /\ pc[c] = "handle" /\ msg[c].op = "FU"
    /\ timeout_db' = EmptyMap
    /\ Goto(c, "FU_shared")
    /\ UNCHANGED <<shared_db, now, overflow_checks, sd, wire, server, msg, loc, epc,
                   remove_keys, nreq, origin>>

\* History: the keys whose values the clear removed are marked "FU".
handle_flush_shared(c) ==
    /\ pc[c] = "FU_shared"
    /\ shared_db' = EmptyMap
    /\ origin' = [k \in DOMAIN origin |-> [origin[k] EXCEPT !.by = "FU"]]
    /\ Return(c, <<"FU", <<>>>>)
    /\ UNCHANGED <<timeout_db, now, overflow_checks, sd, wire, server, msg, loc, epc,
                   remove_keys, nreq>>

---------------------------------------------------------------------------
(* The expirer (cache_manager.rs).  One cycle: cleanup_expired_entries      *)
(* scans timeout_db, then removes each collected key from shared_db and     *)
(* from timeout_db; then the task sleeps until the next cycle.              *)

RECURSIVE SubsetsOfSize(_, _)
SubsetsOfSize(S, n) ==
    IF n = 0 THEN {{}}
    ELSE UNION {{T \cup {x} : T \in SubsetsOfSize(S \ {x}, n - 1)} : x \in S}

Expired(m, t) == {k \in DOMAIN m : t > m[k]}

\* The keys one scan can collect: every expired key, or, when more than
\* BATCH_SIZE are expired, the BATCH_SIZE of them the iteration meets first
\* (DashMap's iteration order is not specified: any BATCH_SIZE of them).
Batches(E) ==
    IF Cardinality(E) <= BATCH_SIZE THEN {E}
    ELSE {E \ D : D \in SubsetsOfSize(E, Cardinality(E) - BATCH_SIZE)}

cleanup_scan ==
    /\ epc = "scan" /\ ~server.shutdown_token
    /\ \E B \in Batches(Expired(timeout_db, now)) :
          remove_keys' = B
    /\ epc' = "remove_value"
    /\ UNCHANGED <<shared_db, timeout_db, now, overflow_checks, sd, wire, server, pc, msg, resp,
                   loc, nreq, origin>>

\* The key the loop over remove_keys is at (the vector holds the keys in the
\* order the scan met them: some fixed order of the collected set).
next_key == CHOOSE k \in remove_keys : TRUE

cleanup_remove_value ==
    /\ epc = "remove_value"
    /\ IF remove_keys = {}
       THEN epc' = "sleep" /\ UNCHANGED <<shared_db, origin>>
       ELSE /\ shared_db' = remove(shared_db, next_key)
            /\ origin' = remove(origin, next_key)
            /\ epc' = "remove_deadline"
    /\ UNCHANGED <<timeout_db, now, overflow_checks, sd, wire, server, pc, msg, resp, loc,
                   remove_keys, nreq>>

cleanup_remove_deadline ==
    /\ epc = "remove_deadline"
    /\ timeout_db' = remove(timeout_db, next_key)
    /\ remove_keys' = remove_keys \ {next_key}
    /\ epc' = "remove_value"
    /\ UNCHANGED <<shared_db, now, overflow_checks, sd, wire, server, pc, msg, resp, loc, nreq,
                   origin>>

\* if shutdown_token.is_cancelled() { break; } at the top of the loop.
cache_manager_break ==
    /\ epc = "scan" /\ server.shutdown_token
    /\ epc' = "finished"
    /\ UNCHANGED <<shared_db, timeout_db, now, overflow_checks, sd, wire, server, pc, msg,
                   resp, loc, remove_keys, nreq, origin>>

\* A variant in which the task never starts another cycle.
cache_manager_oversleeps ==
    /\ epc = "sleep"
    /\ UNCHANGED vars

\* sleep(CLEANUP_INTERVAL - elapsed) is over: the next cycle starts.
cache_manager_wake ==
    /\ epc = "sleep"
    /\ epc' = "scan"
    /\ UNCHANGED <<shared_db, timeout_db, now, overflow_checks, sd, wire, server, pc, msg, resp,
                   loc, remove_keys, nreq, origin>>

---------------------------------------------------------------------------
(* The columnar library at its seam.  A record batch is a schema (a         *)
(* sequence of fields [name, type]) and one column of values per field.     *)
(* The IPC stream is an opaque envelope, modelled as                        *)
(*     <<255, ncols>> schema  [ <<255, 1, compression, nrows>> values ]     *)
(*     <<255, 0>>                                                           *)
(* where every message starts with the continuation marker 0xFF, the schema *)
(* is ncols pairs <<name code, type code>>, and <<255, 0>> ends the stream. *)

FieldNames == <<"id", "x", "s">>
DataTypes == <<"Int64", "Float64", "Boolean", "Utf8", "Binary">>

CodeOf(seq, x) == CHOOSE i \in 1..Len(seq) : seq[i] = x

RECURSIVE Flatten(_)
Flatten(ss) == IF ss = <<>> THEN <<>> ELSE Head(ss) \o Flatten(Tail(ss))

num_rows(rb) == IF rb.columns = <<>> THEN 0 ELSE Len(rb.columns[1])

CompressionCode(compression_type) ==
    CASE compression_type = "lz4" -> 1
      [] compression_type = "zstd" -> 2
      [] OTHER -> 0

\* StreamWriter: try_new_with_options writes the schema, write the batch,
\* finish the end-of-stream marker (handler.rs:189-206).
StreamWriter(rb, compression_type) ==
    <<IpcContinuation, Len(rb.schema)>>
    \o Flatten([i \in 1..Len(rb.schema) |->
                  <<CodeOf(FieldNames, rb.schema[i].name),
                    CodeOf(DataTypes, rb.schema[i].type)>>])
    \o <<IpcContinuation, 1, CompressionCode(compression_type), num_rows(rb)>>
    \o Flatten(rb.columns)
    \o <<IpcContinuation, 0>>

\* StreamReader::try_new reads the schema message.
SchemaReadable(b) ==
    /\ Len(b) >= 2
    /\ b[1] = IpcContinuation
    /\ b[2] >= 1
    /\ Len(b) >= 2 + 2 * b[2]
    /\ \A i \in 1..b[2] : /\ b[2 * i + 1] \in 1..Len(FieldNames)
                          /\ b[2 * i + 2] \in 1..Len(DataTypes)

\* reader.next(): "none" at the end of the stream, "err" for a message that
\* does not decode, else the first record batch.
StreamReaderNext(b) ==
    LET ncols == b[2]
        rest == SubSeq(b, 3 + 2 * ncols, Len(b))
    IN IF rest = <<>> \/ (Len(rest) >= 2 /\ rest[1] = IpcContinuation /\ rest[2] = 0)
       THEN [kind |-> "none"]
       ELSE IF Len(rest) < 4 \/ rest[1] # IpcContinuation \/ rest[2] # 1
               \/ Len(rest) < 4 + ncols * rest[4]
       THEN [kind |-> "err"]
       ELSE LET nrows == rest[4] IN
            [kind |-> "ok",
             rb |-> [schema |-> [i \in 1..ncols |->
                                   [name |-> FieldNames[b[2 * i + 1]],
                                    type |-> DataTypes[b[2 * i + 2]]]],
                     columns |-> [i \in 1..ncols |->
                                   SubSeq(rest, 5 + (i - 1) * nrows, 4 + i * nrows)]]]

---------------------------------------------------------------------------
(* process_filter (filterer.rs:18-168).  An Option is a sequence: <<>> is   *)
(* None, <<v>> is Some(v).  Int64 stands for the integer, date and          *)
(* timestamp column types (they read value_int), Float64 for the floats,    *)
(* Binary for a column type the match does not list.                        *)

RangeOf(seq) == {seq[i] : i \in 1..Len(seq)}

\* The elements of seq whose flag is TRUE, in order.
RECURSIVE Keep(_, _)
Keep(seq, flags) ==
    IF seq = <<>> THEN <<>>
    ELSE (IF Head(flags) THEN <<Head(seq)>> ELSE <<>>)
         \o Keep(Tail(seq), Tail(flags))

\* filter_array (filterer.rs:170-186), on one row.
filter_array(x, v, filter_type) ==
    CASE filter_type = "gt" -> x > v
      [] filter_type = "eq" -> x = v
      [] filter_type = "lt" -> x < v
      [] filter_type = "gte" -> x >= v
      [] filter_type = "lte" -> x <= v
      [] OTHER -> x # v

data_type_options == {"IN", "FL", "DA", "DT", "ST", "BL"}

schema_has(rb, col) == \E i \in 1..Len(rb.schema) : rb.schema[i].name = col

column_index(rb, col) ==
    CHOOSE i \in 1..Len(rb.schema) :
        /\ rb.schema[i].name = col
        /\ \A j \in 1..(i - 1) : rb.schema[j].name # col

\* The clauses the .filter(...) keeps (filterer.rs:31-34).
retained(rb, columns_filters) ==
    Keep(columns_filters,
         [i \in 1..Len(columns_filters) |->
            /\ columns_filters[i].data_type \in data_type_options
            /\ schema_has(rb, columns_filters[i].col)])

\* The value a clause compares with, by the column's runtime type.
clause_value(rb, item) ==
    LET t == rb.schema[column_index(rb, item.col)].type IN
    CASE t = "Int64" -> item.value_int
      [] t = "Float64" -> item.value_flt
      [] t = "Boolean" -> item.value_bol
      [] t = "Utf8" -> item.value_str
      [] OTHER -> <<>>

\* .unwrap() of a None value, or panic!("Not implemented for data type").
clause_panics(rb, item) == clause_value(rb, item) = <<>>

clause_mask(rb, item) ==
    LET data_array == rb.columns[column_index(rb, item.col)] IN
    [r \in 1..Len(data_array) |->
        filter_array(data_array[r], clause_value(rb, item)[1], item.filter_type)]

\* .reduce(...): left to right, AND when filterlogic is "AND", OR otherwise.
RECURSIVE reduce_masks(_, _, _)
reduce_masks(acc, masks, filterlogic) ==
    IF masks = <<>> THEN acc
    ELSE reduce_masks([r \in 1..Len(acc) |->
                          IF filterlogic = "AND" THEN acc[r] /\ Head(masks)[r]
                                                 ELSE acc[r] \/ Head(masks)[r]],
                      Tail(masks), filterlogic)

process_filter(rb, cols, filterlogic, columns_filters) ==
    LET items == retained(rb, columns_filters)
        masks == [i \in 1..Len(items) |-> clause_mask(rb, items[i])]
        filtering_mask ==
            IF Len(columns_filters) > 0
            THEN reduce_masks(Head(masks), Tail(masks), filterlogic)
            ELSE [r \in 1..num_rows(rb) |-> TRUE]
        kept == [i \in 1..Len(rb.schema) |->
                    cols = <<>> \/ rb.schema[i].name \in RangeOf(cols)]
        fields == Keep(rb.schema, kept)
    IN IF Len(columns_filters) > 0
          /\ (items = <<>> \/ \E i \in 1..Len(items) : clause_panics(rb, items[i]))
       THEN [kind |-> "panic"]           \* None.unwrap()
       ELSE IF fields = <<>>
       THEN [kind |-> "panic"]           \* RecordBatch::try_new(..).unwrap()
       ELSE [kind |-> "ok",
             rb |-> [schema |-> fields,
                     columns |-> [i \in 1..Len(fields) |->
                                    Keep(Keep(rb.columns, kept)[i], filtering_mask)]]]

---------------------------------------------------------------------------
(* The query object (handler.rs:18-37) and serde_json::from_str, on the     *)
(* payloads the model sends: a payload is a query object iff it is the JSON *)
(* text of one of Queries.                                                  *)

NoClause ==
    [col |-> "", filter_type |-> "", data_type |-> "", value_int |-> <<>>,
     value_flt |-> <<>>, value_bol |-> <<>>, value_str |-> <<>>]

QueryMemo ==
    [json |-> "{\"key\":\"t\",\"columns\":[\"x\"],\"filterlogic\":\"AND\",\"filter\":[{\"col\":\"id\",\"filter_type\":\"gte\",\"data_type\":\"IN\",\"value_int\":2}],\"cachetime\":1,\"compression_type\":\"\"}",
     query |-> [key |-> "t", columns |-> <<"x">>, filterlogic |-> "AND",
                filter |-> <<[NoClause EXCEPT !.col = "id", !.filter_type = "gte",
                                              !.data_type = "IN", !.value_int = <<2>>]>>,
                cachetime |-> 1, compression_type |-> ""]]

QueryOnce ==
    [json |-> "{\"key\":\"t\",\"columns\":[],\"filterlogic\":\"OR\",\"filter\":[],\"cachetime\":0,\"compression_type\":\"lz4\"}",
     query |-> [key |-> "t", columns |-> <<>>, filterlogic |-> "OR",
                filter |-> <<>>, cachetime |-> 0, compression_type |-> "lz4"]]

\* Clauses and queries that exercise the filter: two clauses the filter
\* keeps, a clause on a column the batch does not have, a clause with a
\* data_type outside the list, and a clause on a Binary column.
IdGte2 ==
    [NoClause EXCEPT !.col = "id", !.filter_type = "gte", !.data_type = "IN", !.value_int = <<2>>]

XLt3 ==
    [NoClause EXCEPT !.col = "x", !.filter_type = "lt", !.data_type = "FL", !.value_flt = <<3>>]

UnknownCol ==
    [NoClause EXCEPT !.col = "nope", !.filter_type = "eq", !.data_type = "IN", !.value_int = <<1>>]

UnknownType ==
    [NoClause EXCEPT !.col = "id", !.filter_type = "eq", !.data_type = "XX", !.value_int = <<1>>]

OnBinary ==
    [NoClause EXCEPT !.col = "s", !.filter_type = "eq", !.data_type = "ST", !.value_str = <<"7">>]

QueryAnd ==
    [json |-> "{\"key\":\"t\",\"columns\":[],\"filterlogic\":\"AND\",\"filter\":[{\"col\":\"id\",\"filter_type\":\"gte\",\"data_type\":\"IN\",\"value_int\":2},{\"col\":\"x\",\"filter_type\":\"lt\",\"data_type\":\"FL\",\"value_flt\":3.0}],\"cachetime\":0,\"compression_type\":\"\"}",
     query |-> [key |-> "t", columns |-> <<>>, filterlogic |-> "AND",
                filter |-> <<IdGte2, XLt3>>,
                cachetime |-> 0, compression_type |-> ""]]

QueryOr ==
    [json |-> "{\"key\":\"t\",\"columns\":[],\"filterlogic\":\"OR\",\"filter\":[{\"col\":\"id\",\"filter_type\":\"gte\",\"data_type\":\"IN\",\"value_int\":2},{\"col\":\"x\",\"filter_type\":\"lt\",\"data_type\":\"FL\",\"value_flt\":3.0}],\"cachetime\":0,\"compression_type\":\"\"}",
     query |-> [key |-> "t", columns |-> <<>>, filterlogic |-> "OR",
                filter |-> <<IdGte2, XLt3>>,
                cachetime |-> 0, compression_type |-> ""]]

QueryOneSkipped ==
    [json |-> "{\"key\":\"t\",\"columns\":[],\"filterlogic\":\"AND\",\"filter\":[{\"col\":\"nope\",\"filter_type\":\"eq\",\"data_type\":\"IN\",\"value_int\":1},{\"col\":\"id\",\"filter_type\":\"gte\",\"data_type\":\"IN\",\"value_int\":2}],\"cachetime\":0,\"compression_type\":\"\"}",
     query |-> [key |-> "t", columns |-> <<>>, filterlogic |-> "AND",
                filter |-> <<UnknownCol, IdGte2>>,
                cachetime |-> 0, compression_type |-> ""]]

QueryUnknownCol ==
    [json |-> "{\"key\":\"t\",\"columns\":[],\"filterlogic\":\"AND\",\"filter\":[{\"col\":\"nope\",\"filter_type\":\"eq\",\"data_type\":\"IN\",\"value_int\":1}],\"cachetime\":0,\"compression_type\":\"\"}",
     query |-> [key |-> "t", columns |-> <<>>, filterlogic |-> "AND",
                filter |-> <<UnknownCol>>,
                cachetime |-> 0, compression_type |-> ""]]

QueryUnknownType ==
    [json |-> "{\"key\":\"t\",\"columns\":[],\"filterlogic\":\"OR\",\"filter\":[{\"col\":\"id\",\"filter_type\":\"eq\",\"data_type\":\"XX\",\"value_int\":1}],\"cachetime\":0,\"compression_type\":\"\"}",
     query |-> [key |-> "t", columns |-> <<>>, filterlogic |-> "OR",
                filter |-> <<UnknownType>>,
                cachetime |-> 0, compression_type |-> ""]]

QueryOnBinary ==
    [json |-> "{\"key\":\"s\",\"columns\":[],\"filterlogic\":\"AND\",\"filter\":[{\"col\":\"s\",\"filter_type\":\"eq\",\"data_type\":\"ST\",\"value_str\":\"7\"}],\"cachetime\":0,\"compression_type\":\"\"}",
     query |-> [key |-> "s", columns |-> <<>>, filterlogic |-> "AND",
                filter |-> <<OnBinary>>,
                cachetime |-> 0, compression_type |-> ""]]

QueryNoFilter ==
    [json |-> "{\"key\":\"s\",\"columns\":[],\"filterlogic\":\"AND\",\"filter\":[],\"cachetime\":0,\"compression_type\":\"\"}",
     query |-> [key |-> "s", columns |-> <<>>, filterlogic |-> "AND",
                filter |-> <<>>,
                cachetime |-> 0, compression_type |-> ""]]

FilterQueries ==
    {QueryAnd, QueryOr, QueryOneSkipped, QueryUnknownCol, QueryUnknownType, QueryOnBinary, QueryNoFilter}

Queries == {QueryMemo, QueryOnce} \cup FilterQueries

from_str(payload_str) ==
    IF \E q \in Queries : q.json = payload_str
    THEN [ok |-> TRUE, query |-> (CHOOSE q \in Queries : q.json = payload_str).query]
    ELSE [ok |-> FALSE]

\* The batch of scenario S4: id:Int64 = 1,2,3 and x:Float64 = 1.0,2.0,3.0.
BatchT ==
    [schema |-> <<[name |-> "id", type |-> "Int64"], [name |-> "x", type |-> "Float64"]>>,
     columns |-> <<<<1, 2, 3>>, <<1, 2, 3>>>>]

\* A batch with a column of a type the filter's match does not list.
BatchS ==
    [schema |-> <<[name |-> "id", type |-> "Int64"], [name |-> "s", type |-> "Binary"]>>,
     columns |-> <<<<1, 2, 3>>, <<7, 8, 9>>>>]

---------------------------------------------------------------------------
(* handle_get_arrow_data (handler.rs:145-215).                              *)

\* What the code between the source lookup and the memoization computes from
\* the source value: an error reply, a panic, or the encoded result.
QueryResult(record_batch_bytes, query) ==
    IF Len(record_batch_bytes) = 0 THEN [kind |-> "panic"]   \* record_batch_bytes[0]
    ELSE IF record_batch_bytes[1] # TagA THEN [kind |-> "er4"]
    ELSE IF ~SchemaReadable(Tail(record_batch_bytes))
    THEN [kind |-> "panic"]                                   \* .expect("Read error")
    ELSE LET next == StreamReaderNext(Tail(record_batch_bytes)) IN
         IF next.kind # "ok" THEN [kind |-> "er4"]
         ELSE LET filtered == process_filter(next.rb, query.columns,
                                             query.filterlogic, query.filter) IN
              IF filtered.kind = "panic" THEN [kind |-> "panic"]
              ELSE [kind |-> "ok",
                    buffer |-> StreamWriter(filtered.rb, query.compression_type)]

\* A variant that drops the first byte of the value found under the payload.
handle_get_arrow_data_lookup_strips(c) ==
    /\ pc[c] = "handle" /\ msg[c].op = "GA"
    /\ IF contains_key(shared_db, msg[c].key)
       THEN Return(c, <<"AR", Tail(shared_db[msg[c].key])>>)
       ELSE IF from_str(msg[c].key).ok
            THEN Goto(c, "GA_source")
            ELSE Return(c, ER(3))
    /\ UNCHANGED <<shared_db, timeout_db, now, overflow_checks, sd, wire, server, msg, loc, epc,
                   remove_keys, nreq, origin>>

\* shared_db.get(&payload_query_string); on a miss, the JSON is parsed.
handle_get_arrow_data_lookup(c) ==
    /\ pc[c] = "handle" /\ msg[c].op = "GA"
    /\ IF contains_key(shared_db, msg[c].key)
       THEN Return(c, <<"AR", shared_db[msg[c].key]>>)
       ELSE IF from_str(msg[c].key).ok
            THEN Goto(c, "GA_source")
            ELSE Return(c, ER(3))
    /\ UNCHANGED <<shared_db, timeout_db, now, overflow_checks, sd, wire, server, msg, loc, epc,
                   remove_keys, nreq, origin>>

\* shared_db.get(&query.key), decode, filter, encode.
handle_get_arrow_data_source(c) ==
    /\ pc[c] = "GA_source"
    /\ LET query == from_str(msg[c].key).query IN
       IF ~contains_key(shared_db, query.key)
       THEN Return(c, ER(2)) /\ UNCHANGED loc
       ELSE LET res == QueryResult(shared_db[query.key], query) IN
            CASE res.kind = "panic" -> Panic(c) /\ UNCHANGED loc
              [] res.kind = "er4" -> Return(c, ER(4)) /\ UNCHANGED loc
              [] OTHER ->
                   /\ loc' = [loc EXCEPT ![c].buffer = res.buffer]
                   /\ IF query.cachetime > 0
                      THEN Goto(c, "GA_memo")
                      ELSE Return(c, <<"AR", res.buffer>>)
    /\ UNCHANGED <<shared_db, timeout_db, now, overflow_checks, sd, wire, server, msg, epc,
                   remove_keys, nreq, origin>>

\* shared_db.insert(payload_query_string, buffer).
handle_get_arrow_data_memo(c) ==
    /\ pc[c] = "GA_memo"
    /\ shared_db' = insert(shared_db, msg[c].key, loc[c].buffer)
    /\ origin' = insert(origin, msg[c].key,
                        [NoOrigin EXCEPT !.by = "GA", !.bytes = loc[c].buffer])
    /\ Goto(c, "GA_memo_deadline")
    /\ UNCHANGED <<timeout_db, now, overflow_checks, sd, wire, server, msg, loc, epc,
                   remove_keys, nreq>>

\* timeout_db.insert(payload_query_string, now + duration); reply AR.
handle_get_arrow_data_memo_deadline(c) ==
    /\ pc[c] = "GA_memo_deadline"
    /\ timeout_db' = insert(timeout_db, msg[c].key,
                            now + from_millis(from_str(msg[c].key).query.cachetime))
    /\ origin' = IF msg[c].key \in DOMAIN origin
                 THEN [origin EXCEPT ![msg[c].key].ttl =
                                         from_str(msg[c].key).query.cachetime,
                                     ![msg[c].key].ttl_by = "GA"]
                 ELSE origin
    /\ Return(c, <<"AR", loc[c].buffer>>)
    /\ UNCHANGED <<shared_db, now, overflow_checks, sd, wire, server, msg, loc, epc,
                   remove_keys, nreq>>

----------------------------------------------------------------------------
(* handle_list_keys (handler.rs:312-334).  Keys are listed as their bytes,  *)
(* one character per element, each followed by NUL; the last element of     *)
(* the payload is popped.  The iteration order of the map is arbitrary.     *)

\* The byte 0, written as a character.
NUL == "NUL"

\* key.as_bytes() for the keys the listing is exercised with.
as_bytes(k) ==
    CASE k = "" -> <<>>
      [] k = "a" -> <<"a">>
      [] k = "b" -> <<"b">>
      [] k = "ab" -> <<"a", "b">>

\* glob_match for patterns made of literal characters, "?" and "*".
RECURSIVE glob_match(_, _)
glob_match(pattern, path) ==
    IF pattern = <<>> THEN path = <<>>
    ELSE IF Head(pattern) = "*"
         THEN \/ glob_match(Tail(pattern), path)
              \/ path # <<>> /\ glob_match(pattern, Tail(path))
         ELSE /\ path # <<>>
              /\ Head(pattern) \in {"?", Head(path)}
              /\ glob_match(Tail(pattern), Tail(path))

\* Vec::pop: removes the last element if there is one.
pop(v) == IF v = <<>> THEN <<>> ELSE SubSeq(v, 1, Len(v) - 1)

\* The orders in which an iteration can visit the keys of a map.
IterOrders(m) ==
    {f \in [1..Cardinality(DOMAIN m) -> DOMAIN m] :
        \A i, j \in DOMAIN f : i # j => f[i] # f[j]}

RECURSIVE keys_payload_bytes(_, _)
keys_payload_bytes(pattern, entries) ==
    IF entries = <<>> THEN <<>>
    ELSE LET key == Head(entries) IN
         (IF from_str(key).ok THEN <<>>
          ELSE IF pattern = <<>> \/ glob_match(pattern, as_bytes(key))
               THEN as_bytes(key) \o <<NUL>>
               ELSE <<>>)
         \o keys_payload_bytes(pattern, Tail(entries))

handle_list_keys(c) ==
    /\ pc[c] = "handle" /\ msg[c].op = "LS"
    /\ \E entries \in IterOrders(shared_db) :
          Return(c, <<"KY", pop(keys_payload_bytes(msg[c].value, entries))>>)
    /\ UNCHANGED <<shared_db, timeout_db, now, overflow_checks, sd, wire, server, msg, loc, epc,
                   remove_keys, nreq, origin>>

---------------------------------------------------------------------------
(* handle_wrong_protocol, handle_connection_close, handle_unknown_type      *)
(* (handler.rs:356-368).                                                    *)

handle_wrong_protocol(c) ==
    /\ pc[c] = "handle" /\ msg[c].op = "WP"
    /\ Return(c, ER(6))
    /\ UNCHANGED <<shared_db, timeout_db, now, overflow_checks, sd, wire, server, msg, loc,
                   epc, remove_keys, nreq, origin>>

handle_connection_close(c) ==
    /\ pc[c] = "handle" /\ msg[c].op = "CC"
    /\ Return(c, <<"CC", <<>>>>)
    /\ UNCHANGED <<shared_db, timeout_db, now, overflow_checks, sd, wire, server, msg, loc,
                   epc, remove_keys, nreq, origin>>

handle_unknown_type(c) ==
    /\ pc[c] = "handle" /\ msg[c].op = "XX"
    /\ Return(c, ER(1))
    /\ UNCHANGED <<shared_db, timeout_db, now, overflow_checks, sd, wire, server, msg, loc,
                   epc, remove_keys, nreq, origin>>

----------------------------------------------------------------------------
(* handle_stream (server.rs:137-161): the other ways its select! and        *)
(* read_frame (connection.rs:18-54) complete, and the end of the task.      *)

\* token.cancelled() completes: the frame is ("CC", empty).  select! polls
\* its branches in random order, so a readable frame does not exclude it,
\* nor does a cancelled token exclude read_frame.
token_cancelled(c) ==
    /\ pc[c] = "read" /\ server.shutdown_token
    /\ msg' = [msg EXCEPT ![c] = CC]
    /\ pc' = [pc EXCEPT ![c] = "handle"]
    /\ UNCHANGED <<shared_db, timeout_db, now, overflow_checks, sd, wire, server, resp,
                   loc, epc, remove_keys, nreq, origin>>

\* read_exact on the header fails: message_type = "CC", no payload.
read_frame_error(c) ==
    /\ pc[c] = "read"
    /\ msg' = [msg EXCEPT ![c] = CC]
    /\ pc' = [pc EXCEPT ![c] = "handle"]
    /\ UNCHANGED <<shared_db, timeout_db, now, overflow_checks, sd, wire, server, resp,
                   loc, epc, remove_keys, nreq, origin>>

\* vec![0; n]
Zeros(n) == [i \in 1..n |-> 0]

\* What read_frame returns for the frame of request m when the payload's
\* read_exact fails (connection.rs:44-53): the buffer as it is, all zeros
\* when no payload byte arrived, the bytes that arrived followed by zeros
\* otherwise.  For SD: no byte (cache time 0, is_add 0, key_len 0, so the
\* key is "" and the value the remaining zeros), or the bytes up to the end
\* of the key (the value all zeros).  FU ignores its payload.
Truncations(m) ==
    IF m.op = "SD"
    THEN {[SD(0, FALSE, "", Zeros(Len(m.key) + Len(m.value)))
              EXCEPT !.truncated = TRUE],
          [SD(m.cache_time_ms, m.is_add, m.key, Zeros(Len(m.value)))
              EXCEPT !.truncated = TRUE]}
    ELSE {[m EXCEPT !.truncated = TRUE]}

\* read_frame on a socket that still works returns a request of the set R.
read_frame_ok(c, R) == c \notin wire.failed /\ read_frame(c, R)

\* The header arrives, announcing a payload; the socket fails before all of
\* the payload has arrived.  The error is logged and the frame returned.
read_frame_truncated(c, R) ==
    /\ pc[c] = "read" /\ c \notin wire.failed
    /\ nreq < MaxReqs
    /\ \E m \in R : \E t \in Truncations(m) : msg' = [msg EXCEPT ![c] = t]
    /\ wire' = [wire EXCEPT !.failed = @ \cup {c}]
    /\ pc' = [pc EXCEPT ![c] = "handle"]
    /\ nreq' = nreq + 1
    /\ UNCHANGED <<shared_db, timeout_db, now, overflow_checks, sd, server, resp, loc,
                   epc, remove_keys, origin>>

\* The two type bytes are not UTF-8: panic!("Invalid string").
read_frame_invalid_type(c) ==
    /\ pc[c] = "read"
    /\ Panic(c)
    /\ UNCHANGED <<shared_db, timeout_db, now, overflow_checks, sd, wire, server, msg, loc,
                   epc, remove_keys, nreq, origin>>

\* handle_stream has returned: the spawned block decrements the counter and
\* the task is over (server.rs:98-99).
connection_end(c) ==
    /\ pc[c] = "end"
    /\ server' = [server EXCEPT !.connection_counter = @ - 1]
    /\ pc' = [pc EXCEPT ![c] = "exited"]
    /\ UNCHANGED <<shared_db, timeout_db, now, overflow_checks, sd, wire, msg, resp, loc,
                   epc, remove_keys, nreq, origin>>

----------------------------------------------------------------------------
(* Server::run (server.rs:32-115) and graceful_shutdown (117-134).  A       *)
(* connection with pc = "pending" waits in the listener's backlog.          *)

\* The signal task receives SIGTERM or SIGINT and cancels the token.
signal ==
    /\ ~server.shutdown_token
    /\ server' = [server EXCEPT !.shutdown_token = TRUE]
    /\ UNCHANGED <<shared_db, timeout_db, now, overflow_checks, sd, wire, pc, msg, resp,
                   loc, epc, remove_keys, nreq, origin>>

\* listener.accept() completes: counter += 1 and the task is spawned.  The
\* select! polls accept() and cancelled() in random order.
accept(c) ==
    /\ server.pc = "accept" /\ pc[c] = "pending"
    /\ server' = [server EXCEPT !.connection_counter = @ + 1]
    /\ pc' = [pc EXCEPT ![c] = "read"]
    /\ UNCHANGED <<shared_db, timeout_db, now, overflow_checks, sd, wire, msg, resp, loc,
                   epc, remove_keys, nreq, origin>>

\* shutdown_token.cancelled() completes: break, graceful_shutdown starts.
accept_break ==
    /\ server.pc = "accept" /\ server.shutdown_token
    /\ server' = [server EXCEPT !.pc = "drain", !.remaining = graceful_timeout]
    /\ UNCHANGED <<shared_db, timeout_db, now, overflow_checks, sd, wire, pc, msg, resp,
                   loc, epc, remove_keys, nreq, origin>>

\* One turn of for remaining in (0..timeout_seconds).rev(): read the counter,
\* break on 0.  checks is history: the number of reads so far.
graceful_shutdown_check ==
    /\ server.pc = "drain"
    /\ server' = IF server.remaining = 0
                 THEN [server EXCEPT !.pc = "join"]
                 ELSE IF server.connection_counter = 0
                 THEN [server EXCEPT !.pc = "join", !.checks = @ + 1]
                 ELSE [server EXCEPT !.pc = "sleep", !.checks = @ + 1,
                                     !.remaining = @ - 1]
    /\ UNCHANGED <<shared_db, timeout_db, now, overflow_checks, sd, wire, pc, msg, resp,
                   loc, epc, remove_keys, nreq, origin>>

\* sleep(Duration::from_secs(1)) is over.
graceful_shutdown_sleep ==
    /\ server.pc = "sleep"
    /\ server' = [server EXCEPT !.pc = "drain"]
    /\ UNCHANGED <<shared_db, timeout_db, now, overflow_checks, sd, wire, pc, msg, resp,
                   loc, epc, remove_keys, nreq, origin>>

graceful_shutdown == graceful_shutdown_check \/ graceful_shutdown_sleep

\* tokio::join!(cache_manager_handle, shutdown_handle): both tasks are over.
join ==
    /\ server.pc = "join" /\ epc = "finished" /\ server.shutdown_token
    /\ server' = [server EXCEPT !.pc = "returned"]
    /\ UNCHANGED <<shared_db, timeout_db, now, overflow_checks, sd, wire, pc, msg, resp,
                   loc, epc, remove_keys, nreq, origin>>

----------------------------------------------------------------------------
(* The frame codec at the level of bytes (connection.rs:18-73).  A frame is  *)
(* 'B', two type bytes, the payload length as 8 bytes big-endian, and the   *)
(* payload.  A message type is the sequence of its two bytes.               *)

HEADER_SIZE == 11
PROTOCOL_VERSION == 66

\* u64::to_be_bytes, for lengths below 2^16 (the six high bytes are 0).
to_be_bytes(n) ==
    [i \in 1..8 |-> IF i = 7 THEN (n \div 256) % 256
                    ELSE IF i = 8 THEN n % 256 ELSE 0]

\* u64::from_be_bytes; a length with one of the five high bytes set is far
\* above 2^24, more than a stream of the model ever holds.
from_be_bytes(b) ==
    IF \E i \in 1..5 : b[i] # 0 THEN 16777216
    ELSE b[6] * 65536 + b[7] * 256 + b[8]

\* String::from_utf8 on two bytes: two ASCII bytes or one two-byte sequence.
from_utf8_ok(b) ==
    \/ b[1] < 128 /\ b[2] < 128
    \/ b[1] \in 194..223 /\ b[2] \in 128..191

\* A variant that writes the length little-endian.
write_frame_bytes_le(message_type, payload) ==
    <<PROTOCOL_VERSION>> \o message_type
    \o [i \in 1..8 |-> to_be_bytes(Len(payload))[9 - i]] \o payload

\* write_frame: header 'B' + message_type, payload_length.to_be_bytes(), then
\* the payload (nothing more when it is empty).
write_frame_bytes(message_type, payload) ==
    <<PROTOCOL_VERSION>> \o message_type \o to_be_bytes(Len(payload)) \o payload

\* read_frame on a stream that holds the bytes s: what it returns and how
\* many bytes it takes off the stream.
packet_length(s) == from_be_bytes(SubSeq(s, 4, HEADER_SIZE))

read_frame_bytes(s) ==
    LET header_buffer == SubSeq(s, 1, HEADER_SIZE)
        type_bytes == SubSeq(header_buffer, 2, 3)
    IN  [panics |-> header_buffer[1] = PROTOCOL_VERSION /\ ~from_utf8_ok(type_bytes),
         message_type |-> IF header_buffer[1] = PROTOCOL_VERSION
                          THEN type_bytes ELSE <<87, 80>>,
         payload |-> SubSeq(s, HEADER_SIZE + 1, HEADER_SIZE + packet_length(s)),
         consumed |-> HEADER_SIZE + packet_length(s)]

\* One end writes a frame to the stream.
stream_write(message_type, payload) ==
    /\ Len(wire.sent) < MaxFrames
    /\ wire' = [wire EXCEPT
                   !.bytes = @ \o write_frame_bytes(message_type, payload),
                   !.sent = Append(@, <<message_type, payload>>)]
    /\ UNCHANGED <<shared_db, timeout_db, now, overflow_checks, sd, server, pc, msg,
                   resp, loc, epc, remove_keys, nreq, origin>>

\* The other end's read_frame completes: both read_exact calls got their bytes.
stream_read ==
    /\ Len(wire.bytes) >= HEADER_SIZE
    /\ Len(wire.bytes) >= HEADER_SIZE + packet_length(wire.bytes)
    /\ LET r == read_frame_bytes(wire.bytes) IN
       /\ wire' = [bytes |-> SubSeq(wire.bytes, r.consumed + 1, Len(wire.bytes)),
                   sent |-> Tail(wire.sent),
                   failed |-> wire.failed,
                   got |-> IF r.panics THEN <<"panic">>
                           ELSE <<r.message_type, r.payload>>]
    /\ UNCHANGED <<shared_db, timeout_db, now, overflow_checks, sd, server, pc, msg,
                   resp, loc, epc, remove_keys, nreq, origin>>

----------------------------------------------------------------------------
(* Initial state: Server::run has created the two empty maps and spawned    *)
(* the expirer; the connection tasks wait in read_frame.                    *)

InitStore ==
    /\ shared_db = EmptyMap
    /\ timeout_db = EmptyMap
    /\ origin = EmptyMap
    /\ now = 0

\* Server::run in its accept loop, every connection of Conns accepted.
Serving ==
    [shutdown_token |-> FALSE, connection_counter |-> Cardinality(Conns),
     pc |-> "accept", remaining |-> 0, checks |-> 0]

\* The SD payload split (handler.rs:61-74).  A payload is given by its 11
\* header bytes and its length; a slice of it by the index range it covers
\* (0-based, the end excluded, as in the source).
SDPayload(t, a, key_len, n) ==
    [head |-> u64_be(t) \o <<IF a THEN 1 ELSE 0>> \o u16_be(key_len),
     len |-> 11 + n]

NoOut ==
    [done |-> FALSE, panics |-> FALSE, cache_time_ms |-> 0, is_add |-> FALSE,
     key |-> <<0, 0>>, value |-> <<0, 0>>]

NoSD == [payload |-> [head |-> <<>>, len |-> 0], out |-> NoOut]

\* u16 + u16: the sum leaves the type's range, and the wrapped sum.
u16_add_overflows(a, b) == a + b > U16_MAX
u16_wrapping_add(a, b) == (a + b) % (U16_MAX + 1)

\* &payload[a..b] panics unless a <= b <= payload.len().
slice_panics(payload, a, b) == a > b \/ b > payload.len

\* u16::from_be_bytes([payload[9], payload[10]])
key_len_of(payload) == payload.head[10] * 256 + payload.head[11]

\* (u16::from_be_bytes([payload[9], payload[10]]) + 11) as usize
key_index_until(payload) == u16_wrapping_add(key_len_of(payload), 11)

\* The head of handle_set_data: cache time, flag, key slice, value slice.
handle_set_data_split(payload) ==
    LET until == key_index_until(payload)
        panicked == [NoOut EXCEPT !.done = TRUE, !.panics = TRUE]
    IN IF payload.len < 11
       THEN panicked
       ELSE IF overflow_checks /\ u16_add_overflows(key_len_of(payload), 11)
       THEN panicked
       ELSE IF slice_panics(payload, 11, until)
       THEN panicked
       ELSE [done |-> TRUE, panics |-> FALSE,
             cache_time_ms |-> payload.head[8],
             is_add |-> payload.head[9] # 0,
             key |-> <<11, until>>,
             value |-> <<until, payload.len>>]

\* handle_set_data runs on a payload of the set P up to the map operations.
handle_set_data_head(P) ==
    /\ \E payload \in P :
          sd' = [payload |-> payload, out |-> handle_set_data_split(payload)]
    /\ UNCHANGED <<shared_db, timeout_db, now, overflow_checks, pc, msg, resp, loc,
                   epc, remove_keys, nreq, origin, server, wire>>

\* A stream with nothing in flight; sent is history: the frames written and
\* not yet read; got is the last result of read_frame; failed holds the
\* connections whose socket has failed.
NoWire == [bytes |-> <<>>, sent |-> <<>>, got |-> <<>>, failed |-> {}]

InitTasks ==
    /\ server = Serving
    /\ wire = NoWire
    /\ sd = NoSD
    /\ pc = [c \in Conns |-> "read"]
    /\ msg = [c \in Conns |-> NullMsg]
    /\ resp = [c \in Conns |-> NoResp]
    /\ loc = [c \in Conns |-> NoLoc]
    /\ epc = "scan"
    /\ remove_keys = {}
    /\ nreq = 0

Init == InitStore /\ InitTasks /\ overflow_checks = FALSE

\* Either build profile: overflow checks off (release) or on (debug).
InitAnyBuild == InitStore /\ InitTasks /\ overflow_checks \in BOOLEAN

cleanup_expired_entries ==
    \/ cleanup_scan
    \/ cleanup_remove_value
    \/ cleanup_remove_deadline

cache_manager == cleanup_expired_entries \/ cache_manager_wake

handle_set_data(c) ==
    \/ handle_set_data_check(c)
    \/ handle_set_data_insert(c)
    \/ handle_set_data_deadline(c)

handle_delete(c) == handle_delete_deadline(c) \/ handle_delete_value(c)

handle_touch(c) == handle_touch_check(c) \/ handle_touch_deadline(c)

handle_delete_many(c) ==
    \/ handle_delete_many_start(c)
    \/ handle_delete_many_deadline(c)
    \/ handle_delete_many_value(c)

handle_ttl(c) == handle_ttl_deadline(c) \/ handle_ttl_value(c)

handle_flush(c) == handle_flush_timeout(c) \/ handle_flush_shared(c)

handle_get_arrow_data(c) ==
    \/ handle_get_arrow_data_lookup(c)
    \/ handle_get_arrow_data_source(c)
    \/ handle_get_arrow_data_memo(c)
    \/ handle_get_arrow_data_memo_deadline(c)

---------------------------------------------------------------------------
(* Spec: the key-value plane.  Two connections send SD, GD, DL, TH, DM and  *)
(* FU for one key while the expirer runs and the clock advances.            *)

Bar == <<98>>

ValuesKV == {<<>>, Bar, <<TagB>> \o Bar}

ReqsKV ==
    {SD(t, a, "k", v) : t \in {0, 1}, a \in BOOLEAN, v \in ValuesKV}
    \cup {TH(t, "k") : t \in {0, 1}}
    \cup {GD("k"), DL("k"), DM(<<"k">>), FU}

Next ==
    \/ \E c \in Conns :
          \/ read_frame(c, ReqsKV)
          \/ write_frame(c)
          \/ handle_set_data(c)
          \/ handle_get_data(c)
          \/ handle_delete(c)
          \/ handle_touch(c)
          \/ handle_delete_many(c)
          \/ handle_flush(c)
    \/ cache_manager
    \/ Tick

Spec == Init /\ [][Next]_vars

---------------------------------------------------------------------------
(* Claims on the key-value plane.                                           *)

\* The step in which connection c's handler answers its request of type op.
Answers(c, op) == pc[c] = "handle" /\ msg[c].op = op /\ pc'[c] # "handle"

\* No other connection has a request in flight.
Alone(c) == \A d \in Conns \ {c} : pc[d] = "read"

\* C1: after SD stored the client's bytes b under k, with no operation on k
\* since, GD k replies BY with payload b, for every b (the empty string and
\* strings whose first byte is no tag included).
C1_SetGetRoundTrip ==
    [][\A c \in Conns :
          (Answers(c, "GD") /\ OriginOf(msg[c].key).by = "SD" /\ Alone(c))
          => /\ pc'[c] = "write"
             /\ resp'[c] = <<"BY", OriginOf(msg[c].key).bytes>>]_vars

\* C2: in every reachable state every key of the deadline map is a key of
\* the value map.
C2_DeadlineContainment == DOMAIN timeout_db \subseteq DOMAIN shared_db

\* No task is between two map operations of one request or one cleanup pass.
Quiescent ==
    /\ \A c \in Conns : pc[c] \in {"read", "handle", "write", "panicked"}
    /\ epc \in {"scan", "sleep"}

\* C2, only in the states where no task is in the middle of a request.
C2_QuiescentContainment == Quiescent => C2_DeadlineContainment

\* C10: what GD replies for the stored value v, as the claim has it.
C10_Reply(v) ==
    IF v # <<>> /\ v[1] = TagA THEN <<"AR", Tail(v)>>
    ELSE IF v # <<>> /\ v[1] = TagB THEN <<"BY", Tail(v)>>
    ELSE IF v # <<>> /\ v[1] = TagI THEN <<"IN", Tail(v)>>
    ELSE IF v # <<>> /\ v[1] = TagF THEN <<"FL", Tail(v)>>
    ELSE ER(5)

\* C10: GD replies ER 2 for an absent key, else by the first byte of the
\* stored value (ER 5 for every value without a tag), whatever the deadline
\* of the key, and changes neither map.
C10_GetDataDispatch ==
    [][\A c \in Conns :
          Answers(c, "GD")
          => /\ pc'[c] = "write"
             /\ resp'[c] = IF msg[c].key \in DOMAIN shared_db
                           THEN C10_Reply(shared_db[msg[c].key])
                           ELSE ER(2)
             /\ shared_db' = shared_db
             /\ timeout_db' = timeout_db]_vars

---------------------------------------------------------------------------
(* SpecSet: SD in both modes against DL, the expirer and the clock.         *)

ReqsSet ==
    {SD(t, a, "k", v) : t \in {0, 1}, a \in BOOLEAN, v \in {Bar, <<TagB>> \o Bar}}
    \cup {DL("k")}

NextSet ==
    \/ \E c \in Conns :
          \/ read_frame(c, ReqsSet)
          \/ write_frame(c)
          \/ handle_set_data(c)
          \/ handle_delete(c)
    \/ cache_manager
    \/ Tick

SpecSet == Init /\ [][NextSet]_vars

\* C3: an SD with is_add = 1 that finds its key in the value map replies NA
\* with an empty payload, and leaves the key's value and its deadline-map
\* entry, present or absent, as they were.
C3_AddIfAbsentFrame ==
    [][\A c \in Conns :
          (Answers(c, "SD") /\ msg[c].is_add /\ msg[c].key \in DOMAIN shared_db)
          => /\ pc'[c] = "write"
             /\ resp'[c] = <<"NA", <<>>>>
             /\ shared_db' = shared_db
             /\ timeout_db' = timeout_db]_vars

\* An add-if-absent was refused for a key that holds a value and a deadline.
C3_Witness ==
    \E c \in Conns :
        /\ pc[c] = "write" /\ msg[c].op = "SD" /\ msg[c].is_add
        /\ resp[c] = <<"NA", <<>>>>
        /\ msg[c].key \in DOMAIN shared_db
        /\ msg[c].key \in DOMAIN timeout_db
        /\ shared_db[msg[c].key] # msg[c].value

---------------------------------------------------------------------------
(* SpecCtr: the counters.  Two connections send II and IF for one key, SD   *)
(* values that are and are not counters under it, and read it back; the     *)
(* build has overflow checks or not.  No request gives the key a deadline,  *)
(* so the expirer has nothing to do and is left out; SD is sent with        *)
(* is_add = 0 only, which never reaches the separate insert step.           *)

ValuesCtr == {<<>>, <<TagB>> \o I64(1), <<TagI>> \o I64(1), <<TagI, 1>>}

ReqsCtr ==
    {II(d, "c") : d \in {I64(1), I64_MINUS_1, I64_MAX}}
    \cup {IF_(f64_to_be_bytes(1), "c")}
    \cup {SD(0, FALSE, "c", v) : v \in ValuesCtr}
    \cup {GD("c")}

NextCtr ==
    \E c \in Conns :
        \/ read_frame(c, ReqsCtr)
        \/ write_frame(c)
        \/ handle_set_data_check(c)
        \/ handle_set_data_deadline(c)
        \/ handle_increment_integer(c)
        \/ handle_increment_float(c)
        \/ handle_get_data(c)

SpecCtr == InitAnyBuild /\ [][NextCtr]_vars

\* A counter of the given tag: the tag and exactly 8 bytes.
IsCounter(v, tag) == Len(v) = 9 /\ v[1] = tag

\* C4: II (IF) on an existing key whose value is not tag I (F) followed by
\* exactly 8 bytes replies ER 5, leaves the value unchanged and does not end
\* the connection task; a value of length 0 is such a value.
C4_CounterTypeError ==
    [][\A c \in Conns :
          \/ /\ Answers(c, "II") /\ msg[c].key \in DOMAIN shared_db
             /\ ~IsCounter(shared_db[msg[c].key], TagI)
          \/ /\ Answers(c, "IF") /\ msg[c].key \in DOMAIN shared_db
             /\ ~IsCounter(shared_db[msg[c].key], TagF)
          => /\ pc'[c] = "write"
             /\ resp'[c] = ER(5)
             /\ shared_db' = shared_db]_vars

\* The sum of a sequence of deltas modulo 2^64.
RECURSIVE SumOf(_)
SumOf(ds) ==
    IF ds = <<>> THEN I64(0) ELSE wrapping_add(SumOf(Tail(ds)), Head(ds))

\* C5: every II on a key that increments alone created and changed replies
\* IN with the sum of all deltas so far modulo 2^64 and stores it; crossing
\* the i64 maximum or minimum wraps and never aborts the request.
C5_CounterWraps ==
    [][\A c \in Conns :
          (Answers(c, "II")
           /\ (msg[c].key \in DOMAIN shared_db => OriginOf(msg[c].key).by = "II"))
          => LET sum == SumOf(Append(OriginOf(msg[c].key).deltas, msg[c].delta)) IN
             /\ pc'[c] = "write"
             /\ resp'[c] = <<"IN", sum>>
             /\ shared_db'[msg[c].key] = <<TagI>> \o sum]_vars

\* C5 for the increments that stay within the i64 range.
C5_NoOverflowSum ==
    [][\A c \in Conns :
          (Answers(c, "II")
           /\ (msg[c].key \in DOMAIN shared_db
               => /\ OriginOf(msg[c].key).by = "II"
                  /\ ~add_overflows(Tail(shared_db[msg[c].key]), msg[c].delta)))
          => LET sum == SumOf(Append(OriginOf(msg[c].key).deltas, msg[c].delta)) IN
             /\ pc'[c] = "write"
             /\ resp'[c] = <<"IN", sum>>
             /\ shared_db'[msg[c].key] = <<TagI>> \o sum]_vars

---------------------------------------------------------------------------
(* SpecGA: queries.  Two connections store the batch of scenario S4 under   *)
(* "t" (the client arranges the tag A), query it with and without           *)
(* memoization, send GA and GD for plain keys and fingerprints, and delete  *)
(* the source, while the expirer evicts the memoized results.               *)

SourceT == <<TagA>> \o StreamWriter(BatchT, "")

ReqsGA ==
    {SD(0, FALSE, "t", SourceT), DL("t"),
     GA(QueryMemo.json), GA(QueryOnce.json), GA("t"),
     GD(QueryMemo.json)}

NextGA ==
    \/ \E c \in Conns :
          \/ read_frame(c, ReqsGA)
          \/ write_frame(c)
          \/ handle_set_data_check(c)
          \/ handle_set_data_deadline(c)
          \/ handle_get_arrow_data(c)
          \/ handle_get_data(c)
          \/ handle_delete(c)
    \/ cache_manager
    \/ Tick

\* The state after a client stored the source batch under "t" with cache
\* time 0 and got its OK reply.
InitGA ==
    /\ shared_db = insert(EmptyMap, "t", SourceT)
    /\ timeout_db = EmptyMap
    /\ origin = insert(EmptyMap, "t", [NoOrigin EXCEPT !.by = "SD", !.bytes = SourceT,
                                           !.ttl_by = "SD", !.ttl = 0])
    /\ now = 0
    /\ InitTasks
    /\ overflow_checks = FALSE

SpecGA == InitGA /\ [][NextGA]_vars

HasTag(v) == v # <<>> /\ v[1] \in {TagA, TagB, TagI, TagF}

\* C7: while the entry a GA with cachetime > 0 memoized under its payload is
\* in the store, a GA with the same payload replies AR with the bytes the
\* memoizing GA replied, in the one step that looks the payload up (the
\* source key is not read, and may be gone).
C7_MemoHit ==
    [][\A c \in Conns :
          (Answers(c, "GA") /\ msg[c].key \in DOMAIN shared_db
           /\ OriginOf(msg[c].key).by = "GA")
          => /\ pc'[c] = "write"
             /\ resp'[c] = <<"AR", OriginOf(msg[c].key).bytes>>
             /\ UNCHANGED <<shared_db, timeout_db>>]_vars

\* A second GA was answered from the memoized entry, with the encoded
\* result, after the source key was deleted.
C7_Witness ==
    \E c \in Conns :
        /\ pc[c] = "write" /\ msg[c] = GA(QueryMemo.json)
        /\ "t" \notin DOMAIN shared_db
        /\ QueryMemo.json \in DOMAIN shared_db
        /\ OriginOf(QueryMemo.json).by = "GA"
        /\ loc[c].buffer = <<>>
        /\ resp[c] = <<"AR", OriginOf(QueryMemo.json).bytes>>

\* C8: a reply that carries a stored value (GD, or GA answered from the
\* store) carries it without its leading tag byte, whatever operation
\* created the key.
C8_TagStripped ==
    [][\A c \in Conns :
          ((Answers(c, "GD") \/ Answers(c, "GA"))
           /\ msg[c].key \in DOMAIN shared_db /\ HasTag(shared_db[msg[c].key]))
          => /\ pc'[c] = "write"
             /\ resp'[c][2] = Tail(shared_db[msg[c].key])]_vars

\* C9: the entry a GA memoized is tagged A, and GD on the fingerprint
\* replies AR with the encoded result the GA replied.
C9_MemoTaggedA ==
    [][\A c \in Conns :
          (Answers(c, "GD") /\ msg[c].key \in DOMAIN shared_db
           /\ OriginOf(msg[c].key).by = "GA")
          => /\ shared_db[msg[c].key][1] = TagA
             /\ pc'[c] = "write"
             /\ resp'[c] = <<"AR", OriginOf(msg[c].key).bytes>>]_vars

---------------------------------------------------------------------------
(* SpecTTL: eviction.  BATCH_SIZE + 1 keys were set with the same deadline  *)
(* and are never written, touched or deleted again; one connected client   *)
(* only reads one of them.  The runtime keeps scheduling the expirer task, whose interval  *)
(* fires every CLEANUP_INTERVAL (cache_manager.rs:19-42), and the clock     *)
(* advances: weak fairness on both.                                         *)

TTLKeys == {ToString(i) : i \in 1..(BATCH_SIZE + 1)}

\* The state after SD stored <<TagB>> \o "b" under every key of TTLKeys, with
\* a cache time that ends at the current time: one tick later all are expired.
\* The SD frames were read before; one more frame will be.
InitTTL ==
    /\ shared_db = [k \in TTLKeys |-> <<TagB>> \o Bar]
    /\ timeout_db = [k \in TTLKeys |-> MaxTime - 1]
    /\ origin = [k \in TTLKeys |->
                    [NoOrigin EXCEPT !.by = "SD", !.bytes = <<TagB>> \o Bar,
                                     !.ttl_by = "SD", !.ttl = 1]]
    /\ now = MaxTime - 1
    /\ server = Serving
    /\ wire = NoWire
    /\ sd = NoSD
    /\ pc = [c \in Conns |-> "read"]
    /\ msg = [c \in Conns |-> NullMsg]
    /\ resp = [c \in Conns |-> NoResp]
    /\ loc = [c \in Conns |-> NoLoc]
    /\ epc = "scan"
    /\ remove_keys = {}
    /\ nreq = MaxReqs - 1
    /\ overflow_checks = FALSE

ReqsTTL == {GD("1")}

NextTTL ==
    \/ read_frame("c1", ReqsTTL)
    \/ write_frame("c1")
    \/ handle_get_data("c1")
    \/ cache_manager
    \/ Tick

SpecTTL ==
    InitTTL /\ [][NextTTL]_vars /\ WF_vars(cache_manager) /\ WF_vars(Tick)

---------------------------------------------------------------------------
(* SpecTL: deadlines.  Two connections set "k" with and without a cache     *)
(* time, touch it, ask for its remaining time and delete it, while the      *)
(* expirer runs and the clock advances.                                     *)

ReqsTL ==
    {SD(t, FALSE, "k", <<TagB>> \o Bar) : t \in {0, 1}}
    \cup {TH(t, "k") : t \in {0, 1}} \cup {TL("k"), DL("k")}

NextTL ==
    \/ \E c \in Conns :
          \/ read_frame(c, ReqsTL)
          \/ write_frame(c)
          \/ handle_set_data_check(c)
          \/ handle_set_data_deadline(c)
          \/ handle_touch(c)
          \/ handle_ttl(c)
          \/ handle_delete(c)
    \/ cache_manager
    \/ Tick

SpecTL == Init /\ [][NextTL]_vars

\* The last deadline step on k's value was an SD's, with cache time T.
SetBySD(k, T) ==
    OriginOf(k).by = "SD" /\ OriginOf(k).ttl_by = "SD" /\ OriginOf(k).ttl = T

\* Less than 1 ms has passed since the deadline of k was written.
Immediate(k) ==
    /\ k \in DOMAIN timeout_db
    /\ now - (timeout_db[k] - from_millis(OriginOf(k).ttl)) < TicksPerMs

\* C11, first part: a TL answered less than 1 ms after an SD with cache time
\* T > 0 replied OK carries a value in (0, T].
C11_ImmediateTTL ==
    [][\A c \in Conns : \A T \in 1..MaxTime :
          (Answers(c, "TL") /\ SetBySD(msg[c].key, T) /\ Immediate(msg[c].key))
          => /\ pc'[c] = "write"
             /\ \E v \in 1..T : resp'[c] = <<"TL", u64_be(v)>>]_vars

\* C11, second part: a key whose last SD had cache time 0 has no deadline,
\* TL replies 0 for it, and the expirer does not remove it.
C11_NoDeadlineKept ==
    /\ [](\A k \in DOMAIN shared_db : SetBySD(k, 0) => k \notin DOMAIN timeout_db)
    /\ [][\A c \in Conns :
             (pc[c] \in {"handle", "TL_value"} /\ msg[c].op = "TL"
              /\ pc'[c] \notin {"handle", "TL_value"} /\ SetBySD(msg[c].key, 0))
             => pc'[c] = "write" /\ resp'[c] = <<"TL", u64_be(0)>>]_vars
    /\ [][(epc = "remove_value" /\ remove_keys # {} /\ SetBySD(next_key, 0))
             => shared_db' = shared_db]_vars

\* C11: the deadline effect of an SD that replies OK, as TL and the expirer
\* show it: with cache time T > 0 an immediate TL replies a value in (0, T];
\* with cache time 0 the key has no deadline, TL replies 0 and the expirer
\* never removes the key.
C11_SetDeadlineEffect == C11_ImmediateTTL /\ C11_NoDeadlineKept

\* A step of handle_ttl on connection c that returns (reply or panic), the
\* deadline map being as handle_ttl read it (no deadline was written for the
\* key between its two lookups).
AnswersTL(c) ==
    /\ pc[c] \in {"handle", "TL_value"} /\ msg[c].op = "TL"
    /\ pc'[c] \notin {"handle", "TL_value"}
    /\ pc[c] = "TL_value" => msg[c].key \notin DOMAIN timeout_db

\* The reply the case analysis gives for key k in the current state; a
\* deadline equal to now is neither in the future nor past.
TLCase(k, r) ==
    /\ k \notin DOMAIN shared_db => r = ER(2)
    /\ (k \in DOMAIN shared_db /\ k \notin DOMAIN timeout_db) => r = <<"TL", u64_be(0)>>
    /\ (k \in DOMAIN timeout_db /\ timeout_db[k] > now)
          => r = <<"TL", u64_be(as_millis(timeout_db[k] - now))>>
    /\ (k \in DOMAIN timeout_db /\ timeout_db[k] < now) => r = ER(0)

\* C12: TL replies by the case analysis on the state it reads (remaining
\* milliseconds for a deadline in the future, ER 0 for a deadline past, TL 0
\* for a key with no deadline, ER 2 for a key absent from the value map),
\* and changes neither map.
C12_TTLCases ==
    [][\A c \in Conns :
          AnswersTL(c)
          => /\ pc'[c] = "write"
             /\ TLCase(msg[c].key, resp'[c])
             /\ UNCHANGED <<shared_db, timeout_db>>]_vars

\* The same, for keys whose deadline entry, if any, has a value entry.
C12_TTLCasesContained ==
    [][\A c \in Conns :
          (AnswersTL(c)
           /\ (msg[c].key \in DOMAIN timeout_db => msg[c].key \in DOMAIN shared_db))
          => /\ pc'[c] = "write"
             /\ TLCase(msg[c].key, resp'[c])
             /\ UNCHANGED <<shared_db, timeout_db>>]_vars

\* The deadline map after a deadline step for key k with cache time T.
Touched(k, T) ==
    IF T > 0 THEN insert(timeout_db, k, now + from_millis(T))
    ELSE remove(timeout_db, k)

\* C13, sequential part: TH on an absent key replies ER 2 and changes
\* neither map; TH on a present key replies OK, sets or removes the deadline
\* by its cache time and leaves the stored values unchanged.
C13_TouchEffect ==
    [][\A c \in Conns :
          /\ (Answers(c, "TH") /\ msg[c].key \notin DOMAIN shared_db)
                => /\ pc'[c] = "write" /\ resp'[c] = ER(2)
                   /\ UNCHANGED <<shared_db, timeout_db>>
          /\ (Answers(c, "TH") /\ msg[c].key \in DOMAIN shared_db)
                => /\ pc'[c] = "TH_deadline"
                   /\ UNCHANGED <<shared_db, timeout_db>>
          /\ (pc[c] = "TH_deadline" /\ pc'[c] # "TH_deadline")
                => /\ pc'[c] = "write" /\ resp'[c] = <<"OK", <<>>>>
                   /\ timeout_db' = Touched(msg[c].key, msg[c].cache_time_ms)
                   /\ UNCHANGED shared_db]_vars

\* C13, concurrent part: TH writes no deadline for a key that is absent,
\* also when a DL or the expirer removes the key while the TH runs.
C13_NoDeadlineForAbsent ==
    [][\A c \in Conns :
          (pc[c] = "TH_deadline" /\ pc'[c] # "TH_deadline"
           /\ msg[c].key \in DOMAIN timeout_db')
          => msg[c].key \in DOMAIN shared_db']_vars

\* C13: TH replies ER 2 for an absent key and creates no deadline for it;
\* for a present key it replies OK, sets the deadline to now + cache time
\* (removes it for cache time 0) and leaves the value unchanged; no deadline
\* is written for an absent key under concurrent removal either.
C13_Touch == C13_TouchEffect /\ C13_NoDeadlineForAbsent

---------------------------------------------------------------------------
(* SpecDM: deletion, one connection at a time.  The run starts inside a DM  *)
(* whose payload names U16_MAX + 1 keys that were all stored: the loop has  *)
(* removed all but the last; "u" is a key the DM does not name.  The        *)
(* connection then goes on with SD, DL and DM on "a" and "u".               *)

NamedKeys == [i \in 1..(U16_MAX + 1) |-> ToString(i)]

LastKey == ToString(U16_MAX + 1)

InitDM ==
    /\ shared_db = [k \in {LastKey, "u"} |-> <<TagB>> \o Bar]
    /\ timeout_db = [k \in {LastKey, "u"} |-> from_millis(1)]
    /\ origin = [k \in {LastKey, "u"} |->
                    [NoOrigin EXCEPT !.by = "SD", !.bytes = <<TagB>> \o Bar,
                                     !.ttl_by = "SD", !.ttl = 1]]
    /\ now = 0
    /\ server = Serving
    /\ wire = NoWire
    /\ sd = NoSD
    /\ pc = [c \in Conns |-> IF c = "c1" THEN "DM_deadline" ELSE "read"]
    /\ msg = [c \in Conns |-> IF c = "c1" THEN DM(NamedKeys) ELSE NullMsg]
    /\ resp = [c \in Conns |-> NoResp]
    /\ loc = [c \in Conns |->
                 IF c = "c1"
                 THEN [NoLoc EXCEPT !.del_keys = <<LastKey>>, !.count = U16_MAX,
                                    !.named_present = U16_MAX + 1]
                 ELSE NoLoc]
    /\ epc = "scan"
    /\ remove_keys = {}
    /\ nreq = 1
    /\ overflow_checks \in BOOLEAN

ReqsDM ==
    {SD(t, FALSE, "a", <<TagB>> \o Bar) : t \in {0, 1}}
    \cup {DL("a"), DL("u"), DM(<<"a">>), DM(<<"a", "a">>), DM(<<"a", "u">>)}

NextDM ==
    \/ read_frame("c1", ReqsDM)
    \/ write_frame("c1")
    \/ handle_set_data_check("c1")
    \/ handle_set_data_deadline("c1")
    \/ handle_delete("c1")
    \/ handle_delete_many("c1")

SpecDM == InitDM /\ [][NextDM]_vars

\* The keys the DL or DM of connection c names.
Named(c) ==
    IF msg[c].op = "DL" THEN {msg[c].key}
    ELSE {msg[c].keys[i] : i \in 1..Len(msg[c].keys)}

Deleting(l) == l \in {"DL_value", "DM_deadline", "DM_value"}

u16_from_be(b) == b[1] * 256 + b[2]

\* C14: a DL or DM changes no key it does not name; when it replies every
\* named key is absent from both maps; DL replies OK if the key was in the
\* value map and ER 2 otherwise; DM replies DM with the u16 number of named
\* keys that were in the value map (a key named twice counted once), for
\* every number of keys a payload can name.
C14_Deletion ==
    [][\A c \in Conns :
          /\ ((Deleting(pc[c]) \/ Answers(c, "DL") \/ Answers(c, "DM")))
                => \A j \in (DOMAIN shared_db \cup DOMAIN timeout_db
                             \cup DOMAIN shared_db' \cup DOMAIN timeout_db')
                           \ Named(c) :
                      /\ j \in DOMAIN shared_db <=> j \in DOMAIN shared_db'
                      /\ j \in DOMAIN timeout_db <=> j \in DOMAIN timeout_db'
                      /\ j \in DOMAIN shared_db => shared_db'[j] = shared_db[j]
                      /\ j \in DOMAIN timeout_db => timeout_db'[j] = timeout_db[j]
          /\ (Deleting(pc[c]) /\ ~Deleting(pc'[c]))
                => /\ pc'[c] = "write"
                   /\ \A k \in Named(c) :
                         k \notin DOMAIN shared_db' /\ k \notin DOMAIN timeout_db'
                   /\ msg[c].op = "DL"
                         => resp'[c] = IF msg[c].key \in DOMAIN shared_db
                                       THEN <<"OK", <<>>>> ELSE ER(2)
                   /\ msg[c].op = "DM"
                         => /\ resp'[c][1] = "DM" /\ Len(resp'[c][2]) = 2
                            /\ u16_from_be(resp'[c][2]) = loc[c].named_present]_vars

\* The same for a DM whose payload names at most U16_MAX keys.
C14_DeletionSmall ==
    [][\A c \in Conns :
          (Deleting(pc[c]) /\ ~Deleting(pc'[c]) /\ msg[c].op = "DM"
           /\ Len(msg[c].keys) <= U16_MAX)
          => /\ pc'[c] = "write"
             /\ resp'[c] = <<"DM", u16_be(loc[c].named_present)>>]_vars

---------------------------------------------------------------------------
(* SpecFU: flush.  Connection c1 sets "k" with or without a cache time and  *)
(* flushes; connection c2 only reads (GD, TL); the expirer runs and the     *)
(* clock advances.  No task but the flushing one writes.                    *)

ReqsFU == {SD(t, FALSE, "k", <<TagB>> \o Bar) : t \in {0, 1}} \cup {FU}

ReqsRead == {GD("k"), TL("k")}

NextFU ==
    \/ read_frame("c1", ReqsFU)
    \/ read_frame("c2", ReqsRead)
    \/ \E c \in Conns :
          \/ write_frame(c)
          \/ handle_set_data_check(c)
          \/ handle_set_data_deadline(c)
          \/ handle_flush(c)
          \/ handle_get_data(c)
          \/ handle_ttl(c)
    \/ cache_manager
    \/ Tick

SpecFU == Init /\ [][NextFU]_vars

\* C15: when no other task writes concurrently, FU replies FU with both
\* maps empty, and from then on GD and TL on a key the flush removed (with
\* or without a deadline) reply ER 2 until the key is written again.
C15_Flush ==
    /\ [][\A c \in Conns :
             (pc[c] = "FU_shared" /\ pc'[c] # "FU_shared")
             => /\ pc'[c] = "write" /\ resp'[c] = <<"FU", <<>>>>
                /\ shared_db' = EmptyMap /\ timeout_db' = EmptyMap]_vars
    /\ [][\A c \in Conns :
             ((Answers(c, "GD") \/ AnswersTL(c))
              /\ OriginOf(msg[c].key).by = "FU")
             => pc'[c] = "write" /\ resp'[c] = ER(2)]_vars

\* TL on a key that had a deadline when a flush removed it, and that was not
\* written since, got ER 2.
C15_Witness ==
    /\ OriginOf("k").by = "FU" /\ OriginOf("k").ttl = 1
    /\ pc["c2"] = "write" /\ msg["c2"] = TL("k") /\ resp["c2"] = ER(2)
    /\ pc["c1"] = "read" /\ nreq = 3

---------------------------------------------------------------------------
(* SpecLS: listing.  One connection stores plain keys (the empty key among  *)
(* them) and a query-shaped key, deletes, and lists with an empty pattern   *)
(* and with glob patterns.                                                  *)

KeysLS == {"", "a", "ab", QueryOnce.json}

Patterns == {<<>>, <<"a", "*">>, <<"?">>, <<"*">>}

ReqsLS ==
    {SD(0, FALSE, k, <<TagB>> \o Bar) : k \in KeysLS}
    \cup {DL(k) : k \in {"", "a"}} \cup {LS(p) : p \in Patterns}

NextLS ==
    \/ read_frame("c1", ReqsLS)
    \/ write_frame("c1")
    \/ handle_set_data_check("c1")
    \/ handle_set_data_deadline("c1")
    \/ handle_delete("c1")
    \/ handle_list_keys("c1")

SpecLS == Init /\ [][NextLS]_vars

\* The keys LS must list for the pattern, in the current store.
Listed(pattern) ==
    {k \in DOMAIN shared_db :
        /\ ~from_str(k).ok
        /\ pattern = <<>> \/ glob_match(pattern, as_bytes(k))}

\* str::split on NUL; a client reads the empty payload as no key.
RECURSIVE split(_, _)
split(bytes, piece) ==
    IF bytes = <<>> THEN <<piece>>
    ELSE IF Head(bytes) = NUL THEN <<piece>> \o split(Tail(bytes), <<>>)
         ELSE split(Tail(bytes), Append(piece, Head(bytes)))

Recovered(payload) == IF payload = <<>> THEN <<>> ELSE split(payload, <<>>)

ListsExactly(payload, keys) ==
    LET pieces == Recovered(payload) IN
    /\ Len(pieces) = Cardinality(keys)
    /\ {pieces[i] : i \in DOMAIN pieces} = {as_bytes(k) : k \in keys}
    /\ payload # <<>> => payload[Len(payload)] # NUL \/ "" \in keys

\* C16: LS replies KY; splitting the payload on NUL gives exactly the keys
\* of the value map that are no query object and match the pattern (all of
\* them for the empty pattern), each once, for every store content.
C16_Listing ==
    [][Answers("c1", "LS")
       => /\ pc'["c1"] = "write" /\ resp'["c1"][1] = "KY"
          /\ ListsExactly(resp'["c1"][2], Listed(msg["c1"].value))]_vars

\* The same, for stores in which the empty key is not the only key listed.
C16_ListingNonEmptyKey ==
    [][(Answers("c1", "LS") /\ Listed(msg["c1"].value) # {""})
       => /\ pc'["c1"] = "write" /\ resp'["c1"][1] = "KY"
          /\ ListsExactly(resp'["c1"][2], Listed(msg["c1"].value))]_vars

---------------------------------------------------------------------------
(* SpecSrv: the server from start to return.  Connections wait in the       *)
(* backlog, are accepted, send requests (an application error, an unknown   *)
(* type, a wrong version byte, CC, an SD with a short payload), fail to     *)
(* read, and end; the signal arrives at any time; Server::run drains and    *)
(* joins.                                                                   *)

InitSrv ==
    /\ InitStore
    /\ server = [Serving EXCEPT !.connection_counter = 0]
    /\ wire = NoWire
    /\ sd = NoSD
    /\ pc = [c \in Conns |-> "pending"]
    /\ msg = [c \in Conns |-> NullMsg]
    /\ resp = [c \in Conns |-> NoResp]
    /\ loc = [c \in Conns |-> NoLoc]
    /\ epc = "scan"
    /\ remove_keys = {}
    /\ nreq = 0
    /\ overflow_checks = FALSE

ReqsSrv == {GD("k"), XX, WP, CC, SD_short}

handle_stream(c) ==
    \/ read_frame(c, ReqsSrv)
    \/ read_frame_error(c)
    \/ read_frame_invalid_type(c)
    \/ token_cancelled(c)
    \/ handle_get_data(c)
    \/ handle_unknown_type(c)
    \/ handle_wrong_protocol(c)
    \/ handle_connection_close(c)
    \/ handle_set_data_check(c)
    \/ write_frame(c)
    \/ connection_end(c)

NextSrv ==
    \/ signal
    \/ \E c \in Conns : accept(c) \/ handle_stream(c)
    \/ accept_break
    \/ graceful_shutdown
    \/ join
    \/ cleanup_scan
    \/ cleanup_remove_value
    \/ cache_manager_wake
    \/ cache_manager_break

SpecSrv == InitSrv /\ [][NextSrv]_vars

\* The positions of a connection task outside request handling.
Outside == {"pending", "read", "write", "end", "exited", "panicked"}

\* The loop of connection task c ends in this step.
LoopEnds(c) == pc[c] # pc'[c] /\ pc'[c] \in {"end", "panicked"}

Closing(c) == pc[c] = "write" /\ (resp[c][1] = "CC" \/ msg[c].op = "WP")

\* C17: a connection task ends its loop exactly when the reply it writes is
\* CC (the frame was CC: sent by the client, a failed header read, or
\* shutdown) or the request was WP, which is answered ER 6; no request ends
\* the task without a reply.
C17_CloseConditions ==
    [][\A c \in Conns :
          /\ LoopEnds(c) => Closing(c)
          /\ (Closing(c) /\ pc'[c] # "write") => pc'[c] = "end"
          /\ (pc[c] = "write" /\ msg[c].op = "WP") => resp[c] = ER(6)
          /\ (pc[c] = "write" /\ resp[c][1] = "CC") => msg[c].op = "CC"]_vars

\* The same for the ends of the loop that are no panic.
C17_CloseConditionsReturn ==
    [][\A c \in Conns :
          /\ (LoopEnds(c) /\ pc'[c] # "panicked") => Closing(c)
          /\ (Closing(c) /\ pc'[c] # "write") => pc'[c] = "end"
          /\ (pc[c] = "write" /\ msg[c].op = "WP") => resp[c] = ER(6)
          /\ (pc[c] = "write" /\ resp[c][1] = "CC") => msg[c].op = "CC"]_vars

\* C18: on one connection every frame read gets one reply: handling a frame
\* ends only by handing its reply to write_frame, with the handler's work
\* done, and the next frame is dispatched only after that reply is written.
C18_Ordering ==
    [][\A c \in Conns :
          /\ (pc[c] \notin Outside /\ pc'[c] \in Outside) => pc'[c] = "write"
          /\ (pc[c] = "write" /\ pc'[c] # "write") => pc'[c] \in {"read", "end"}
          /\ (pc[c] # "handle" /\ pc'[c] = "handle")
             => pc[c] = "read" /\ resp[c] = NoResp /\ loc[c] = NoLoc]_vars

\* The same, for frames whose handling does not panic.
C18_OrderingNoPanic ==
    [][\A c \in Conns :
          /\ (pc[c] \notin Outside /\ pc'[c] \in Outside)
             => pc'[c] \in {"write", "panicked"}
          /\ (pc[c] = "write" /\ pc'[c] # "write") => pc'[c] \in {"read", "end"}
          /\ (pc[c] # "handle" /\ pc'[c] = "handle")
             => pc[c] = "read" /\ resp[c] = NoResp /\ loc[c] = NoLoc]_vars

DrainBounded ==
    /\ [][(server.pc = "drain" /\ server.remaining > 0
           /\ server.connection_counter = 0 /\ server' # server)
          => server'.pc = "join"]_vars
    /\ [][(server.pc = "drain" /\ server' # server)
          => server'.checks <= server.checks + 1]_vars
    /\ [](server.checks <= graceful_timeout)
    /\ [](server.pc = "returned" => epc = "finished" /\ server.shutdown_token)

\* C19: once the token is cancelled no connection is accepted; the drain
\* reads the counter at most graceful_timeout times and stops at the first
\* read of 0; Server::run returns only when the expirer and the signal task
\* are over, connections open or not.
C19_GracefulDrain ==
    /\ [][server.shutdown_token
          => \A c \in Conns : pc[c] = "pending" => pc'[c] = "pending"]_vars
    /\ DrainBounded

\* The drain and the return alone.
C19_DrainBounded == DrainBounded

Running == {c \in Conns : pc[c] \notin {"pending", "exited", "panicked"}}

\* C20: the connection counter is the number of accepted connection tasks
\* that have not ended, however they ended; it is never below 0 and is 0
\* when all have ended.
C20_CounterAccuracy ==
    /\ server.connection_counter = Cardinality(Running)
    /\ server.connection_counter >= 0

\* The counter counts the tasks that have not returned from handle_stream:
\* the running ones and those that panicked.
C20_CounterCountsPanicked ==
    server.connection_counter =
        Cardinality({c \in Conns : pc[c] \notin {"pending", "exited"}})

---------------------------------------------------------------------------
(* SpecWire: the frame codec.  Frames of several types and payload lengths  *)
(* (0, 1, 3, 11, LongLen) are written to one stream and read back.          *)

\* SD, WP, KY as type bytes.
Opcodes == {<<83, 68>>, <<87, 80>>, <<75, 89>>}

LongPayload == [i \in 1..LongLen |-> i % 256]

Payloads ==
    {<<>>, <<0>>, <<66, 83, 68>>, [i \in 1..HEADER_SIZE |-> 0], LongPayload}

NextWire ==
    \/ \E t \in Opcodes, p \in Payloads : stream_write(t, p)
    \/ stream_read

SpecWire == Init /\ [][NextWire]_vars

RECURSIVE Frames(_)
Frames(sent) ==
    IF sent = <<>> THEN <<>>
    ELSE write_frame_bytes(Head(sent)[1], Head(sent)[2]) \o Frames(Tail(sent))

\* C21: read_frame on the bytes write_frame wrote returns the same
\* (opcode, payload) and takes exactly 11 + N bytes off the stream, so the
\* stream always holds exactly the frames written and not yet read, in order,
\* and the length read_frame waits for is the length of the first of them.
C21_FrameRoundTrip ==
    /\ [][Len(wire'.sent) < Len(wire.sent)
          => /\ wire'.got = Head(wire.sent)
             /\ Len(wire.bytes) - Len(wire'.bytes)
                   = HEADER_SIZE + Len(Head(wire.sent)[2])]_vars
    /\ [](wire.bytes = Frames(wire.sent))
    /\ [](wire.sent # <<>>
          => /\ Len(wire.bytes) >= HEADER_SIZE
             /\ packet_length(wire.bytes) = Len(Head(wire.sent)[2]))

\* The long payload was read back while a later frame is still in flight.
C21_Witness ==
    /\ wire.got # <<>> /\ wire.got[2] = LongPayload
    /\ Len(wire.sent) = 1 /\ wire.sent[1][2] = <<0>>

---------------------------------------------------------------------------
(* SpecGAErr: the error outcomes of GA.  One connection stores under "t" an *)
(* empty value, a value tagged B, values tagged A whose remaining bytes are *)
(* empty, end after the schema, or hold a cut batch message, and a proper   *)
(* batch; it deletes "t", and sends GA with a query on "t" and with a       *)
(* payload that is no query.                                                *)

SchemaT == SubSeq(StreamWriter(BatchT, ""), 1, 2 + 2 * Len(BatchT.schema))

SourcesErr ==
    {<<>>, <<TagB>> \o Bar, <<TagA>>, <<TagA>> \o SchemaT,
     <<TagA>> \o SchemaT \o <<IpcContinuation, 1>>, SourceT}

ReqsGAErr ==
    {SD(0, FALSE, "t", v) : v \in SourcesErr}
    \cup {DL("t"), GA(QueryOnce.json), GA("no query")}

NextGAErr ==
    \/ read_frame("c1", ReqsGAErr)
    \/ write_frame("c1")
    \/ handle_set_data_check("c1")
    \/ handle_set_data_deadline("c1")
    \/ handle_delete("c1")
    \/ handle_get_arrow_data_lookup("c1")
    \/ handle_get_arrow_data_source("c1")

SpecGAErr == Init /\ [][NextGAErr]_vars

\* The bytes decode as one record batch: schema message, then a batch.
Decodes(b) == SchemaReadable(b) /\ StreamReaderNext(b).kind = "ok"

\* The GA of connection c is answered in this step.
AnswersGA(c) ==
    /\ msg[c].op = "GA" /\ pc[c] \in {"handle", "GA_source"}
    /\ pc'[c] \notin {"handle", "GA_source", "GA_memo"}

\* The error code the claim gives for the GA of c in the current state, 0
\* when it gives none.
GAErrorCode(c, undecodable(_)) ==
    LET k == msg[c].key IN
    IF pc[c] = "handle"
    THEN IF k \notin DOMAIN shared_db /\ ~from_str(k).ok THEN 3 ELSE 0
    ELSE LET source == from_str(k).query.key IN
         IF source \notin DOMAIN shared_db THEN 2
         ELSE IF undecodable(shared_db[source]) THEN 4 ELSE 0

ErrorReply(c, undecodable(_)) ==
    (AnswersGA(c) /\ GAErrorCode(c, undecodable) # 0)
    => /\ pc'[c] = "write" /\ resp'[c] = ER(GAErrorCode(c, undecodable))
       /\ UNCHANGED <<shared_db, timeout_db>>

\* The source values the claim answers with ER 4.
NoBatch(v) == v = <<>> \/ v[1] # TagA \/ ~Decodes(Tail(v))

\* Those of them whose first byte exists and whose schema message is read.
NoBatchAfterSchema(v) ==
    /\ v # <<>>
    /\ v[1] # TagA \/ (SchemaReadable(Tail(v)) /\ ~Decodes(Tail(v)))

\* C22: a GA whose payload is no stored key replies ER 3 for a payload that
\* is no query, ER 2 for an absent source key, ER 4 for a source value that
\* is empty, not tagged A, or does not decode as one record batch; the maps
\* are unchanged and the connection task goes on to write the reply.
C22_GAErrors == [][ErrorReply("c1", NoBatch)]_vars

\* The same, for source values that are not empty and whose schema message
\* is read.
C22_GAErrorsAfterSchema == [][ErrorReply("c1", NoBatchAfterSchema)]_vars

---------------------------------------------------------------------------
(* SpecFilter: the row mask of GA.  One connection stores the batch BatchT  *)
(* under "t" and BatchS (with a Binary column) under "s" and sends GA with  *)
(* the queries of FilterQueries.                                            *)

SourceS == <<TagA>> \o StreamWriter(BatchS, "")

ReqsFilter ==
    {SD(0, FALSE, "t", SourceT), SD(0, FALSE, "s", SourceS)}
    \cup {GA(q.json) : q \in FilterQueries}

NextFilter ==
    \/ read_frame("c1", ReqsFilter)
    \/ write_frame("c1")
    \/ handle_set_data_check("c1")
    \/ handle_set_data_deadline("c1")
    \/ handle_get_arrow_data_lookup("c1")
    \/ handle_get_arrow_data_source("c1")

SpecFilter == Init /\ [][NextFilter]_vars

SupportedTypes == {"Int64", "Float64", "Boolean", "Utf8"}

\* A clause the mask leaves out: unknown column, unrecognized data_type, or
\* a column of an unsupported type.
Skipped(rb, item) ==
    \/ ~schema_has(rb, item.col)
    \/ item.data_type \notin data_type_options
    \/ rb.schema[column_index(rb, item.col)].type \notin SupportedTypes

RowHolds(rb, item, r) ==
    filter_array(rb.columns[column_index(rb, item.col)][r],
                 clause_value(rb, item)[1], item.filter_type)

ExpectedMask(rb, query) ==
    LET kept == {i \in 1..Len(query.filter) : ~Skipped(rb, query.filter[i])} IN
    [r \in 1..num_rows(rb) |->
        IF kept = {} THEN TRUE
        ELSE IF query.filterlogic = "AND"
        THEN \A i \in kept : RowHolds(rb, query.filter[i], r)
        ELSE \E i \in kept : RowHolds(rb, query.filter[i], r)]

\* The reply for a query that selects every column: the rows of the mask.
MaskedReply(rb, query) ==
    <<"AR", StreamWriter([schema |-> rb.schema,
                          columns |-> [i \in 1..Len(rb.columns) |->
                                         Keep(rb.columns[i], ExpectedMask(rb, query))]],
                         query.compression_type)>>

\* Connection c answers, from the stored source batch, a GA whose filter
\* list satisfies the condition some.
FilterCase(c, some(_, _)) ==
    /\ pc[c] = "GA_source" /\ from_str(msg[c].key).ok
    /\ LET query == from_str(msg[c].key).query IN
       /\ query.key \in DOMAIN shared_db
       /\ some(StreamReaderNext(Tail(shared_db[query.key])).rb, query)

FilterReply(c) ==
    LET query == from_str(msg[c].key).query IN
    /\ pc'[c] = "write"
    /\ resp'[c] = MaskedReply(StreamReaderNext(Tail(shared_db[query.key])).rb, query)

AnyFilter(rb, query) == TRUE

SomeRetained(rb, query) ==
    query.filter = <<>> \/ \E i \in 1..Len(query.filter) : ~Skipped(rb, query.filter[i])

\* C23: the rows GA returns are those of the mask: every row when the filter
\* list is empty or every clause is skipped, else the rows on which all
\* (AND) or some (OR) of the retained clauses hold; a skipped clause never
\* makes the request fail.
C23_FilterMask == [][FilterCase("c1", AnyFilter) => FilterReply("c1")]_vars

\* The same, for filter lists that are empty or retain at least one clause
\* and name no column of an unsupported type.
C23_FilterMaskRetained ==
    [][(FilterCase("c1", SomeRetained)
        /\ \A i \in 1..Len(from_str(msg["c1"].key).query.filter) :
              from_str(msg["c1"].key).query.filter[i] # OnBinary)
       => FilterReply("c1")]_vars

---------------------------------------------------------------------------
(* SpecAdd: concurrent add-if-absent.  Two connections send SD with         *)
(* is_add = 1 for the key "k", each with its own value, with and without a  *)
(* cache time.  Nothing deletes or expires the key.                         *)

ValueOf(c) == IF c = "c1" THEN <<TagB>> \o Bar ELSE <<TagB, TagB>>

ReqsAdd(c) == {SD(t, TRUE, "k", ValueOf(c)) : t \in {0, 1}}

NextAdd ==
    \E c \in Conns :
        \/ read_frame(c, ReqsAdd(c))
        \/ write_frame(c)
        \/ handle_set_data(c)

SpecAdd == Init /\ [][NextAdd]_vars

\* The add of connection c stores its value in this step.
AddInserts(c) ==
    /\ msg[c].op = "SD" /\ msg[c].is_add
    /\ pc[c] = "SD_insert" /\ pc'[c] # "SD_insert"

\* The add of connection c replies OK in this step.
AddRepliesOK(c) ==
    /\ msg[c].op = "SD" /\ msg[c].is_add
    /\ pc[c] = "SD_deadline" /\ pc'[c] = "write" /\ resp'[c] = <<"OK", <<>>>>

OwnDeadline(c) ==
    IF msg[c].cache_time_ms > 0
    THEN /\ msg[c].key \in DOMAIN timeout_db'
         /\ timeout_db'[msg[c].key] = now + from_millis(msg[c].cache_time_ms)
    ELSE msg[c].key \notin DOMAIN timeout_db'

\* C24: of the adds racing for an absent key exactly one replies OK: an add
\* stores its value (and then replies OK) only when the key is absent at
\* that moment, and when it replies OK the value and the deadline held are
\* its own.
C24_AddAtomic ==
    [][\A c \in Conns :
          /\ AddInserts(c) => msg[c].key \notin DOMAIN shared_db
          /\ AddRepliesOK(c)
             => /\ shared_db'[msg[c].key] = msg[c].value
                /\ OwnDeadline(c)]_vars

---------------------------------------------------------------------------
(* The expirer against SD, TH and DL on one key (SpecTL).                   *)

\* The expirer removes key k from the value map in this step.
ExpirerRemoves(k) ==
    /\ epc = "remove_value" /\ epc' = "remove_deadline" /\ k = next_key
    /\ k \in DOMAIN shared_db /\ k \notin DOMAIN shared_db'

\* C25: whenever the expirer removes a key from the value map, the key's
\* deadline at that moment is strictly before the current time; a key set
\* again or touched after the scan collected it keeps its value.  (A key
\* whose deadline entry is absent at that moment, as in the middle of a DL,
\* is not held against the statement.)
C25_ExpirerRemovesExpired ==
    [][\A k \in DOMAIN shared_db :
          (ExpirerRemoves(k) /\ k \in DOMAIN timeout_db)
          => timeout_db[k] < now]_vars

\* The scan collects only keys whose deadline is strictly before the
\* current time.
C25_ScanCollectsExpired ==
    [][(epc = "scan" /\ epc' = "remove_value")
       => \A k \in remove_keys' :
             k \in DOMAIN timeout_db /\ timeout_db[k] < now]_vars

---------------------------------------------------------------------------
(* SpecInc: two connections increment one integer counter, absent at the    *)
(* start, and nothing else touches the key.                                 *)

ReqsInc == {II(d, "n") : d \in {I64(1), I64(2), I64_MINUS_1}}

NextInc ==
    \E c \in Conns :
        \/ read_frame(c, ReqsInc)
        \/ write_frame(c)
        \/ handle_increment_integer(c)

SpecInc == InitAnyBuild /\ [][NextInc]_vars

\* handle_frame returns the reply of connection c's II in this step.
RepliesII(c) == msg[c].op = "II" /\ pc[c] # "write" /\ pc'[c] = "write"

\* The counter before an increment: the stored integer, 0 for an absent key.
CounterBefore(k) == IF k \in DOMAIN shared_db THEN Tail(shared_db[k]) ELSE I64(0)

\* The increments read from the sockets and not yet applied.
Pending == Cardinality({c \in Conns : pc[c] \in {"handle", "II_write"}})

\* C26: concurrent II on one key lose no update: each reply is the value the
\* counter had just before plus the request's delta, that value is stored
\* (the first increment creates the counter), and the stored value is at
\* every moment the sum of the deltas of all increments handled so far.
C26_NoLostUpdates ==
    /\ [][\A c \in Conns :
             RepliesII(c)
             => LET next == wrapping_add(CounterBefore(msg[c].key), msg[c].delta) IN
                /\ resp'[c] = <<"IN", next>>
                /\ shared_db'[msg[c].key] = <<TagI>> \o next]_vars
    /\ [](/\ Len(OriginOf("n").deltas) = nreq - Pending
          /\ "n" \in DOMAIN shared_db
             => shared_db["n"] = <<TagI>> \o SumOf(OriginOf("n").deltas))

\* Both connections had an increment in flight at once and both were
\* applied: two replies, the counter holding the sum of both deltas.
C26_Witness ==
    /\ pc["c1"] = "write" /\ pc["c2"] = "write" /\ nreq = 2
    /\ "n" \in DOMAIN shared_db
    /\ Len(OriginOf("n").deltas) = 2
    /\ resp["c1"] # resp["c2"]
    /\ shared_db["n"] = <<TagI>> \o wrapping_add(msg["c1"].delta, msg["c2"].delta)

---------------------------------------------------------------------------
(* SpecSplit: handle_set_data splits one SD payload, in either build.       *)

MaxValueLen == 2

\* Key lengths at both ends of the u16 range and around 65535 - 11.
KeyLens == {0, 1, U16_MAX - 11, U16_MAX - 10, U16_MAX}

SDPayloads ==
    {SDPayload(t, a, kl, kl + vl) :
        t \in {0, 1}, a \in BOOLEAN, kl \in KeyLens, vl \in 0..MaxValueLen}

SpecSplit == InitAnyBuild /\ [][handle_set_data_head(SDPayloads)]_vars

\* C27: for every key_len in 0..65535 and every payload of at least
\* 11 + key_len bytes, SD takes bytes 11 to 11 + key_len as the key and the
\* bytes after them as the value; the key lengths 65525..65535 included.
C27_SplitEveryKeyLen ==
    sd.out.done
    => LET kl == key_len_of(sd.payload) IN
       /\ ~sd.out.panics
       /\ sd.out.key = <<11, 11 + kl>>
       /\ sd.out.value = <<11 + kl, sd.payload.len>>

\* C27 for the key lengths up to 65524.
C27_SplitBelowOverflow ==
    (sd.out.done /\ key_len_of(sd.payload) + 11 <= U16_MAX)
    => LET kl == key_len_of(sd.payload) IN
       /\ ~sd.out.panics
       /\ sd.out.key = <<11, 11 + kl>>
       /\ sd.out.value = <<11 + kl, sd.payload.len>>

---------------------------------------------------------------------------
(* SpecTrunc: clients whose socket can fail in the middle of a frame.  The  *)
(* requests are SD with a value (so that the header announces a payload),   *)
(* FU sent with a payload, and GD.                                          *)

ReqsTrunc == {SD(t, FALSE, "k", Bar) : t \in {0, 1}} \cup {FU, GD("k")}

\* The frames of ReqsTrunc whose header announces N > 0 payload bytes (for
\* FU: when the client sent one with a payload, which handle_flush ignores).
ReqsWithPayload == {m \in ReqsTrunc : m.op \in {"SD", "FU"}}

NextTrunc ==
    \E c \in Conns :
        \/ read_frame_ok(c, ReqsTrunc)
        \/ read_frame_truncated(c, ReqsWithPayload)
        \/ read_frame_error(c)
        \/ handle_set_data_check(c)
        \/ handle_set_data_deadline(c)
        \/ handle_flush(c)
        \/ handle_get_data(c)
        \/ handle_connection_close(c)
        \/ write_frame(c)
        \/ connection_end(c)

SpecTrunc == Init /\ [][NextTrunc]_vars

\* Connection task c takes this step.
StepOf(c) == pc'[c] # pc[c]

\* C28: a frame whose payload was cut short by a socket failure is never
\* dispatched: no step of the task that read it changes the value map or
\* the deadline map, and the task goes on to close the connection.
C28_TruncatedNotDispatched ==
    [][\A c \in Conns :
          (msg[c].truncated /\ StepOf(c))
          => /\ shared_db' = shared_db
             /\ timeout_db' = timeout_db
             /\ pc'[c] \in {"write", "end"}
             /\ pc'[c] = "write" => resp'[c][1] = "CC"]_vars

\* After the socket of a connection failed, its next read_frame returns CC
\* and the task leaves its loop with the CC reply.
C28_ClosedAfterTruncation ==
    [][\A c \in wire.failed :
          /\ (pc[c] = "read" /\ StepOf(c)) => msg'[c].op = "CC"
          /\ (msg[c].op = "CC" /\ pc[c] = "write" /\ StepOf(c)) => pc'[c] = "end"]_vars

---------------------------------------------------------------------------
(* Shutdown and the tasks (SpecSrv).                                        *)

\* Connection task c passes a frame to handle_frame in this step.
Dispatches(c) == pc[c] # "handle" /\ pc'[c] = "handle"

\* After cancellation the expirer starts no cleanup pass: from the top of
\* its loop it can only leave.
ExpirerStops ==
    [][(server.shutdown_token /\ epc = "scan") => epc' \in {"scan", "finished"}]_vars

\* The path of a synthesized CC: CC reply, end of the loop, decrement.
CancelledPath ==
    [][\A c \in Conns :
          /\ (msg[c].op = "CC" /\ pc[c] = "handle" /\ StepOf(c))
             => pc'[c] = "write" /\ resp'[c] = <<"CC", <<>>>>
          /\ (msg[c].op = "CC" /\ pc[c] = "write" /\ StepOf(c)) => pc'[c] = "end"
          /\ (pc[c] = "end" /\ StepOf(c))
             => /\ pc'[c] = "exited"
                /\ server'.connection_counter = server.connection_counter - 1]_vars

\* C29: once the token is cancelled, a connection task waiting for a frame
\* dispatches no further client request: the only frame it passes on is the
\* synthesized CC, which it answers with CC before leaving its loop and
\* decrementing the counter; the expirer starts no further cleanup pass.
C29_ShutdownReachesTasks ==
    /\ [][\A c \in Conns :
             (server.shutdown_token /\ Dispatches(c)) => msg'[c].op = "CC"]_vars
    /\ CancelledPath
    /\ ExpirerStops

\* The part of C29 about the cancelled branch and the expirer.
C29_CancelledBranchAndExpirer == CancelledPath /\ ExpirerStops

===========================================================================
